---- MODULE Spec2Model ----
(***************************************************************************)
(* Model of the workbook-to-quote conversion of src/app/api/convert/route.ts *)
(* (POST and the functions it calls).  Cell texts are TLA+ strings, read    *)
(* character by character; numbers are fixed-point integers counting        *)
(* 1/Scale units; an optional value (undefined / null in the source) is a   *)
(* sequence of length 0 or 1.                                               *)
(***************************************************************************)
EXTENDS Integers, Sequences, FiniteSets, TLC

(***************************************************************************)
(* Optional values and fixed-point numbers.                                *)
(***************************************************************************)
None == <<>>
Some(v) == <<v>>
IsSome(o) == Len(o) = 1
Val(o) == o[1]
OrElse(o, d) == IF IsSome(o) THEN Val(o) ELSE d

Scale == 10 * 1000

Abs(n) == IF n < 0 THEN -n ELSE n

(***************************************************************************)
(* Strings.                                                                *)
(***************************************************************************)
CharAt(s, i) == SubSeq(s, i, i)

UpperLetters == "ABCDEFGHIJKLMNOPQRSTUVWXYZ"
LowerLetters == "abcdefghijklmnopqrstuvwxyz"
Digits == "0123456789"

IndexIn(alphabet, c) ==
    IF \E i \in 1..Len(alphabet) : CharAt(alphabet, i) = c
    THEN CHOOSE i \in 1..Len(alphabet) : CharAt(alphabet, i) = c
    ELSE 0

Chars(alphabet) == {CharAt(alphabet, i) : i \in 1..Len(alphabet)}

DigitValues == [c \in Chars(Digits) |-> IndexIn(Digits, c) - 1]
LowerOf == [c \in Chars(UpperLetters) |-> CharAt(LowerLetters, IndexIn(UpperLetters, c))]
UpperOf == [c \in Chars(LowerLetters) |-> CharAt(UpperLetters, IndexIn(LowerLetters, c))]

IsDigit(c) == c \in DOMAIN DigitValues
DigitVal(c) == DigitValues[c]

IsSpace(c) == c \in {" ", "\n", "\t", "\r"}

LowerChar(c) == IF c \in DOMAIN LowerOf THEN LowerOf[c] ELSE c

UpperChar(c) == IF c \in DOMAIN UpperOf THEN UpperOf[c] ELSE c

RECURSIVE toLowerCase(_)
toLowerCase(s) ==
    IF s = "" THEN "" ELSE LowerChar(Head(s)) \o toLowerCase(Tail(s))

RECURSIVE toUpperCase(_)
toUpperCase(s) ==
    IF s = "" THEN "" ELSE UpperChar(Head(s)) \o toUpperCase(Tail(s))

includes(s, t) ==
    \E i \in 1..(Len(s) - Len(t) + 1) : SubSeq(s, i, i + Len(t) - 1) = t

StartsWith(s, t) == Len(s) >= Len(t) /\ SubSeq(s, 1, Len(t)) = t
EndsWith(s, t) == Len(s) >= Len(t) /\ SubSeq(s, Len(s) - Len(t) + 1, Len(s)) = t

RECURSIVE TrimStart(_)
TrimStart(s) ==
    IF s # "" /\ IsSpace(Head(s)) THEN TrimStart(Tail(s)) ELSE s

RECURSIVE TrimEnd(_)
TrimEnd(s) ==
    IF s # "" /\ IsSpace(CharAt(s, Len(s))) THEN TrimEnd(SubSeq(s, 1, Len(s) - 1)) ELSE s

trim(s) == TrimEnd(TrimStart(s))

AllSpace(s) == \A i \in 1..Len(s) : IsSpace(CharAt(s, i))

\* position of the first occurrence of the one-character string c in s, 0 if none
FirstPos(s, c) ==
    IF \E i \in 1..Len(s) : CharAt(s, i) = c
    THEN CHOOSE i \in 1..Len(s) : CharAt(s, i) = c /\ \A j \in 1..(i - 1) : CharAt(s, j) # c
    ELSE 0

\* s.split(c) for a one-character separator c
RECURSIVE split(_, _)
split(s, c) ==
    LET p == FirstPos(s, c)
    IN  IF p = 0 THEN <<s>>
        ELSE <<SubSeq(s, 1, p - 1)>> \o split(SubSeq(s, p + 1, Len(s)), c)

\* the longest prefix of s made of digits
RECURSIVE DigitRun(_)
DigitRun(s) ==
    IF s # "" /\ IsDigit(Head(s)) THEN Head(s) \o DigitRun(Tail(s)) ELSE ""

RECURSIVE DigitsValue(_, _)
DigitsValue(s, acc) ==
    IF s = "" THEN acc ELSE DigitsValue(Tail(s), acc * 10 + DigitVal(Head(s)))

\* the digits after a decimal point, in 1/Scale units (four decimals are kept)
FractionValue(s) ==
    LET d(i) == IF i <= Len(s) THEN DigitVal(CharAt(s, i)) ELSE 0
    IN  d(1) * 1000 + d(2) * 100 + d(3) * 10 + d(4)

(***************************************************************************)
(* Generic array helpers (0-based indices, -1 when absent, as in the code). *)
(***************************************************************************)
SeqFilter(seq, Test(_)) == SelectSeq(seq, Test)

SeqMap(seq, F(_)) == [i \in 1..Len(seq) |-> F(seq[i])]

findIndex(seq, Test(_)) ==
    IF \E i \in 1..Len(seq) : Test(seq[i])
    THEN (CHOOSE i \in 1..Len(seq) : Test(seq[i]) /\ \A j \in 1..(i - 1) : ~Test(seq[j])) - 1
    ELSE -1

\* values[index] for a 0-based index; a missing cell reads as the empty text
At(row, index) == IF index >= 0 /\ index < Len(row) THEN row[index + 1] ELSE ""

(***************************************************************************)
(* JavaScript Map: entries in insertion order.                             *)
(***************************************************************************)
EmptyMap == <<>>
MapHas(m, k) == \E i \in 1..Len(m) : m[i].k = k
MapGet(m, k) == m[CHOOSE i \in 1..Len(m) : m[i].k = k].v
MapSet(m, k, v) ==
    IF MapHas(m, k)
    THEN [i \in 1..Len(m) |-> IF m[i].k = k THEN [k |-> k, v |-> v] ELSE m[i]]
    ELSE Append(m, [k |-> k, v |-> v])
MapKeys(m) == [i \in 1..Len(m) |-> m[i].k]
MapKeySet(m) == {m[i].k : i \in 1..Len(m)}

(***************************************************************************)
(* toNumber, route.ts 737-747.                                             *)
(***************************************************************************)
IsNumChar(c) == IsDigit(c) \/ c \in {".", "+", "-"}

RECURSIVE Sanitize(_)
Sanitize(s) ==
    IF s = "" THEN ""
    ELSE (IF IsNumChar(Head(s)) THEN Head(s) ELSE "") \o Sanitize(Tail(s))

\* parseFloat on a text of digits, ".", "+" and "-": the longest numeric prefix
parseFloat(s) ==
    LET signed == s # "" /\ Head(s) \in {"+", "-"}
        body == IF signed THEN Tail(s) ELSE s
        int == DigitRun(body)
        rest == SubSeq(body, Len(int) + 1, Len(body))
        frac == IF rest # "" /\ Head(rest) = "." THEN DigitRun(Tail(rest)) ELSE ""
        magnitude == DigitsValue(int, 0) * Scale + FractionValue(frac)
    IN  IF int = "" /\ frac = "" THEN None
        ELSE Some(IF signed /\ Head(s) = "-" THEN -magnitude ELSE magnitude)

toNumber(value) ==
    IF value = "" THEN None ELSE parseFloat(Sanitize(value))

firstNumeric(values) ==
    LET i == findIndex(values, IsSome)
    IN  IF i = -1 THEN None ELSE values[i + 1]

(***************************************************************************)
(* extractWidth, route.ts 749-759: the number of the leftmost match of     *)
(* /([0-9]+(?:\.[0-9]+)?)\s*[wW]/, else the first number, else 0.           *)
(***************************************************************************)
\* the number text ([0-9]+(?:\.[0-9]+)?) that starts at position i of size
NumberAt(size, i) ==
    LET tail == SubSeq(size, i, Len(size))
        int == DigitRun(tail)
        rest == SubSeq(tail, Len(int) + 1, Len(tail))
        frac == IF rest # "" /\ Head(rest) = "." THEN DigitRun(Tail(rest)) ELSE ""
    IN  IF frac = "" THEN int ELSE int \o "." \o frac

FollowedByW(size, from) ==
    LET after == TrimStart(SubSeq(size, from, Len(size)))
    IN  after # "" /\ Head(after) \in {"w", "W"}

\* the regular expression backtracks from the number with its decimals to the
\* number without them
WidthMatchAt(size, i) ==
    LET full == NumberAt(size, i)
        int == DigitRun(SubSeq(size, i, Len(size)))
    IN  IF FollowedByW(size, i + Len(full)) THEN full
        ELSE IF FollowedByW(size, i + Len(int)) THEN int
        ELSE ""

\* extractWidth had it always taken the first number of the size
extractFirstNumber(size) ==
    LET starts == {i \in 1..Len(size) : IsDigit(CharAt(size, i))}
        Min(S) == CHOOSE i \in S : \A j \in S : i <= j
    IN  IF starts # {} THEN Val(parseFloat(NumberAt(size, Min(starts)))) ELSE 0

extractWidth(size) ==
    LET starts == {i \in 1..Len(size) : IsDigit(CharAt(size, i))}
        hits == {i \in starts : WidthMatchAt(size, i) # ""}
        Min(S) == CHOOSE i \in S : \A j \in S : i <= j
    IN  IF hits # {} THEN Val(parseFloat(WidthMatchAt(size, Min(hits))))
        ELSE IF starts # {} THEN Val(parseFloat(NumberAt(size, Min(starts))))
        ELSE 0

(***************************************************************************)
(* Room names and cabinet types, route.ts 773-872.                         *)
(***************************************************************************)
isRoomName(text) ==
    /\ text # ""
    /\ trim(text) # ""
    /\ includes(trim(text), " - ")

normalizeTypeName(input) ==
    LET name == trim(input)
        lower == toLowerCase(name)
    IN  IF includes(lower, "base") THEN "Base Cabinets"
        ELSE IF includes(lower, "wall") THEN "Wall Cabinets"
        ELSE IF includes(lower, "tall") THEN "Tall Cabinets"
        ELSE IF includes(lower, "suspended") THEN "Suspended Cabinets"
        ELSE IF includes(lower, "mid tall") THEN "Tall Cabinets"
        ELSE IF includes(lower, "open shelf") \/ includes(lower, "panel")
             THEN "Open Shelf & Panels"
        ELSE IF includes(lower, "skirt") THEN "Skirting"
        ELSE IF includes(lower, "loft") THEN "Lofts"
        ELSE IF includes(lower, "pooja") THEN "Pooja Units"
        ELSE IF includes(lower, "filler") THEN "Fillers"
        ELSE IF includes(lower, "hinged wardrobe") THEN "Hinged Wardrobes"
        ELSE IF includes(lower, "sliding wardrobe") THEN "Sliding Wardrobes"
        ELSE IF includes(lower, "wardrobe") THEN "Hinged Wardrobes"
        ELSE name

\* classifyType had it fallen back to the description, as normalizeTypeName does
classifyTypeOrDescription(description) ==
    LET normalized == normalizeTypeName(description)
        lower == toLowerCase(description)
    IN  IF normalized # trim(description) THEN Some(normalized)
        ELSE IF includes(lower, "base") THEN Some("Base Cabinets")
        ELSE IF includes(lower, "wall") THEN Some("Wall Cabinets")
        ELSE IF includes(lower, "tall") THEN Some("Tall Cabinets")
        ELSE IF includes(lower, "suspended") THEN Some("Suspended Cabinets")
        ELSE IF includes(lower, "pooja") THEN Some("Pooja Units")
        ELSE IF includes(lower, "shelf") \/ includes(lower, "panel")
             THEN Some("Open Shelf & Panels")
        ELSE IF includes(lower, "skirt") THEN Some("Skirting")
        ELSE IF includes(lower, "loft") THEN Some("Lofts")
        ELSE IF includes(lower, "filler") THEN Some("Fillers")
        ELSE IF includes(lower, "wardrobe")
             THEN (IF includes(lower, "sliding") THEN Some("Sliding Wardrobes")
                   ELSE Some("Hinged Wardrobes"))
        ELSE Some(trim(description))

\* Some(type), or None where the code returns undefined
classifyType(description) ==
    LET normalized == normalizeTypeName(description)
        lower == toLowerCase(description)
    IN  IF normalized # trim(description) THEN Some(normalized)
        ELSE IF includes(lower, "base") THEN Some("Base Cabinets")
        ELSE IF includes(lower, "wall") THEN Some("Wall Cabinets")
        ELSE IF includes(lower, "tall") THEN Some("Tall Cabinets")
        ELSE IF includes(lower, "suspended") THEN Some("Suspended Cabinets")
        ELSE IF includes(lower, "pooja") THEN Some("Pooja Units")
        ELSE IF includes(lower, "shelf") \/ includes(lower, "panel")
             THEN Some("Open Shelf & Panels")
        ELSE IF includes(lower, "skirt") THEN Some("Skirting")
        ELSE IF includes(lower, "loft") THEN Some("Lofts")
        ELSE IF includes(lower, "filler") THEN Some("Fillers")
        ELSE IF includes(lower, "wardrobe")
             THEN (IF includes(lower, "sliding") THEN Some("Sliding Wardrobes")
                   ELSE Some("Hinged Wardrobes"))
        ELSE None

(***************************************************************************)
(* parseMaterialsBlock, route.ts 650-696.                                  *)
(***************************************************************************)
\* text.split(/\n\s*\n/): the leftmost newline that a run of white space
\* joins to a later newline starts a separator, which runs to the last
\* newline of that run
RECURSIVE SplitSections(_)
SplitSections(text) ==
    LET Sep(i, j) == /\ i < j
                     /\ CharAt(text, i) = "\n"
                     /\ CharAt(text, j) = "\n"
                     /\ AllSpace(SubSeq(text, i + 1, j - 1))
        begins == {i \in 1..Len(text) : \E j \in 1..Len(text) : Sep(i, j)}
    IN  IF begins = {} THEN <<text>>
        ELSE LET i == CHOOSE a \in begins : \A b \in begins : a <= b
                 ends == {j \in 1..Len(text) : Sep(i, j)}
                 j == CHOOSE a \in ends : \A b \in ends : a >= b
             IN  <<SubSeq(text, 1, i - 1)>> \o SplitSections(SubSeq(text, j + 1, Len(text)))

NonEmptyText(s) == s # ""

SectionLines(section) ==
    SeqFilter(SeqMap(split(section, "\n"), trim), NonEmptyText)

TitleLine(lines) ==
    LET first == lines[1]
    IN  trim(IF EndsWith(first, ":") THEN SubSeq(first, 1, Len(first) - 1) ELSE first)

RECURSIVE SectionFields(_, _, _)
SectionFields(lines, i, fields) ==
    IF i > Len(lines) THEN fields
    ELSE LET line == lines[i]
             p == FirstPos(line, ":")
             key == trim(SubSeq(line, 1, p - 1))
             value == trim(SubSeq(line, p + 1, Len(line)))
         IN  IF p <= 1 THEN SectionFields(lines, i + 1, fields)
             ELSE IF key # "" /\ value # ""
                  THEN SectionFields(lines, i + 1, MapSet(fields, key, value))
             ELSE SectionFields(lines, i + 1, fields)

RECURSIVE ParseSections(_, _, _)
ParseSections(sections, i, map) ==
    IF i > Len(sections) THEN map
    ELSE LET lines == SectionLines(sections[i])
         IN  IF Len(lines) = 0 \/ TitleLine(lines) = ""
             THEN ParseSections(sections, i + 1, map)
             ELSE ParseSections(sections, i + 1,
                      MapSet(map, normalizeTypeName(TitleLine(lines)),
                             [label |-> TitleLine(lines),
                              fields |-> SectionFields(lines, 2, EmptyMap)]))

parseMaterialsBlock(text) ==
    ParseSections(SeqFilter(SeqMap(SplitSections(text), trim), NonEmptyText), 1, EmptyMap)

\* parsed.forEach((value, key) => { if (!target.has(key)) target.set(key, value) })
RECURSIVE SetIfAbsentAll(_, _, _)
SetIfAbsentAll(target, parsed, i) ==
    IF i > Len(parsed) THEN target
    ELSE SetIfAbsentAll(IF MapHas(target, parsed[i].k) THEN target
                        ELSE MapSet(target, parsed[i].k, parsed[i].v),
                        parsed, i + 1)

MergeFirstWins(target, parsed) == SetIfAbsentAll(target, parsed, 1)

(***************************************************************************)
(* parseSummarySheet, route.ts 155-412: what one turn of the loop over the *)
(* Summary sheet's rows does.                                              *)
(***************************************************************************)
\* values.find(test): Some(first matching cell) or None
find(values, Test(_)) ==
    LET i == findIndex(values, Test)
    IN  IF i = -1 THEN None ELSE Some(values[i + 1])

IsMaterialCell(value) == includes(value, "Carcass:") \/ includes(value, "Handles:")

\* RoomAfterRow had the room been forgotten after its own row
RoomOfThisRowOnly(currentRoom, values) ==
    LET roomCandidate == find(values, isRoomName)
    IN  IF IsSome(roomCandidate) THEN Some(trim(Val(roomCandidate))) ELSE None

\* route.ts 177-185
RoomAfterRow(currentRoom, values) ==
    LET roomCandidate == find(values, isRoomName)
    IN  IF IsSome(roomCandidate) THEN Some(trim(Val(roomCandidate))) ELSE currentRoom

\* route.ts 180-204
MaterialsAfterRow(materialsByRoom, currentRoom, values) ==
    LET room == RoomAfterRow(currentRoom, values)
        opened == IF IsSome(find(values, isRoomName)) /\ ~MapHas(materialsByRoom, Val(room))
                  THEN MapSet(materialsByRoom, Val(room), EmptyMap)
                  ELSE materialsByRoom
        materialCell == find(values, IsMaterialCell)
    IN  IF IsSome(room) /\ IsSome(materialCell)
        THEN MapSet(opened, Val(room),
                    MergeFirstWins(MapGet(opened, Val(room)),
                                   parseMaterialsBlock(Val(materialCell))))
        ELSE opened

HasRoomHeader(value) == includes(toUpperCase(value), "ROOM")
HasTotalHeader(value) == includes(toUpperCase(value), "TOTAL")

\* route.ts 226-248: the forEach over the header cells, index by index (0-based).
\* The third furniture spelling of the source is a mis-encoded accented word that
\* no text of this model's alphabet contains.
RECURSIVE MapHeaderColumns(_, _, _)
MapHeaderColumns(values, index, indexMap) ==
    IF index >= Len(values) THEN indexMap
    ELSE LET upper == toUpperCase(values[index + 1])
             next ==
                 IF includes(upper, "UNIT") THEN [indexMap EXCEPT !.modules = Some(index)]
                 ELSE IF includes(upper, "ACCESS")
                      THEN [indexMap EXCEPT !.accessories = Some(index)]
                 ELSE IF includes(upper, "APPLIANCE")
                      THEN [indexMap EXCEPT !.appliances = Some(index)]
                 ELSE IF includes(upper, "SERVICE")
                      THEN [indexMap EXCEPT !.services = Some(index)]
                 ELSE IF includes(upper, "FURNITURE") \/ includes(upper, "DECOR")
                      THEN [indexMap EXCEPT !.furniture = Some(index)]
                 ELSE IF includes(upper, "HARDWARE")
                         /\ (indexMap.accessories = None \/ indexMap.accessories = Some(0))
                      THEN [indexMap EXCEPT !.accessories = Some(index)]
                 ELSE indexMap
         IN  MapHeaderColumns(values, index + 1, next)

\* route.ts 206-256: Some(indices) when this row is the financial header
HeaderOfRow(values) ==
    IF (\E i \in 1..Len(values) : HasRoomHeader(values[i]))
       /\ (\E i \in 1..Len(values) : HasTotalHeader(values[i]))
    THEN LET indexMap == MapHeaderColumns(values, 0,
                             [room |-> findIndex(values, HasRoomHeader),
                              total |-> findIndex(values, HasTotalHeader),
                              modules |-> None, accessories |-> None,
                              appliances |-> None, services |-> None,
                              furniture |-> None])
         IN  IF indexMap.room # -1 /\ indexMap.total # -1 THEN Some(indexMap) ELSE None
    ELSE None

\* route.ts 259-271
LabelOfRow(indices, values) ==
    LET primary == trim(At(values, indices.room))
        others == {i \in 1..Len(values) : i - 1 # indices.total /\ trim(values[i]) # ""}
    IN  IF primary # "" THEN primary
        ELSE IF others # {} THEN trim(values[CHOOSE i \in others : \A j \in others : i <= j])
        ELSE ""

\* route.ts 272-292: toNumber of the cell of a mapped column, undefined otherwise
BucketValue(column, values) ==
    IF IsSome(column) THEN toNumber(At(values, Val(column))) ELSE None

\* the six column values in the order firstNumeric receives them
ColumnValues(indices, values) ==
    << toNumber(At(values, indices.total)),
       BucketValue(indices.modules, values),
       BucketValue(indices.accessories, values),
       BucketValue(indices.appliances, values),
       BucketValue(indices.services, values),
       BucketValue(indices.furniture, values) >>

rowNumericCandidates(values) == SeqMap(values, toNumber)

IsSubTotalLabel(labelCell) ==
    LET lower == toLowerCase(labelCell)
    IN  /\ StartsWith(lower, "sub")
        /\ EndsWith(lower, "total")
        /\ Len(lower) >= 8
        /\ AllSpace(SubSeq(lower, 4, Len(lower) - 5))

IsDiscountLabel(labelCell) == includes(toLowerCase(labelCell), "discount")

IsPayableLabel(labelCell) ==
    LET lower == toLowerCase(labelCell)
    IN  includes(lower, "total") /\ (includes(lower, "payable") \/ includes(lower, "after"))

\* SummaryRowOf had a derived total of 0 been kept
SummaryRowOfKeepingZero(labelCell, indices, values) ==
    LET totalValue == toNumber(At(values, indices.total))
        modules == OrElse(BucketValue(indices.modules, values), 0)
        accessories == OrElse(BucketValue(indices.accessories, values), 0)
        appliances == OrElse(BucketValue(indices.appliances, values), 0)
        services == OrElse(BucketValue(indices.services, values), 0)
        furniture == OrElse(BucketValue(indices.furniture, values), 0)
        derivedTotal == modules + accessories + appliances + services + furniture
    IN  [room |-> labelCell, modules |-> modules, accessories |-> accessories,
         appliances |-> appliances, services |-> services, furniture |-> furniture,
         total |-> IF IsSome(totalValue) THEN totalValue ELSE Some(derivedTotal)]

\* route.ts 376-397
SummaryRowOf(labelCell, indices, values) ==
    LET totalValue == toNumber(At(values, indices.total))
        modules == OrElse(BucketValue(indices.modules, values), 0)
        accessories == OrElse(BucketValue(indices.accessories, values), 0)
        appliances == OrElse(BucketValue(indices.appliances, values), 0)
        services == OrElse(BucketValue(indices.services, values), 0)
        furniture == OrElse(BucketValue(indices.furniture, values), 0)
        derivedTotal == modules + accessories + appliances + services + furniture
    IN  [room |-> labelCell, modules |-> modules, accessories |-> accessories,
         appliances |-> appliances, services |-> services, furniture |-> furniture,
         total |-> IF IsSome(totalValue) THEN totalValue
                   ELSE IF derivedTotal > 0 THEN Some(derivedTotal)
                   ELSE None]

\* FinancialsAfterRow had a 'total' row replaced a subtotal that is already set
FinancialsAfterRowTotalOverwrites(financials, indices, values) ==
    LET labelCell == LabelOfRow(indices, values)
        columns == ColumnValues(indices, values)
        broad == firstNumeric(columns \o rowNumericCandidates(values))
        narrow == firstNumeric(columns)
        hasNumericalData == IsSome(broad)
    IN  IF labelCell = "" \/ ~hasNumericalData THEN financials
        ELSE IF toLowerCase(trim(labelCell)) = "total"
             THEN [financials EXCEPT !.subtotal = broad]
        ELSE IF IsSubTotalLabel(labelCell)
             THEN (IF IsSome(narrow) THEN [financials EXCEPT !.subtotal = narrow]
                   ELSE financials)
        ELSE IF IsDiscountLabel(labelCell)
             THEN (IF IsSome(broad) THEN [financials EXCEPT !.discount = broad]
                   ELSE financials)
        ELSE IF IsPayableLabel(labelCell)
             THEN (IF IsSome(narrow) THEN [financials EXCEPT !.totalPayable = narrow]
                   ELSE financials)
        ELSE [financials EXCEPT
                 !.rows = Append(@, SummaryRowOf(labelCell, indices, values))]

\* FinancialsAfterRow had the payable rule been tried before the discount rule
FinancialsAfterRowPayableFirst(financials, indices, values) ==
    LET labelCell == LabelOfRow(indices, values)
        columns == ColumnValues(indices, values)
        broad == firstNumeric(columns \o rowNumericCandidates(values))
        narrow == firstNumeric(columns)
        hasNumericalData == IsSome(broad)
    IN  IF labelCell = "" \/ ~hasNumericalData THEN financials
        ELSE IF toLowerCase(trim(labelCell)) = "total"
             THEN (IF IsSome(broad) /\ financials.subtotal = None
                   THEN [financials EXCEPT !.subtotal = broad]
                   ELSE financials)
        ELSE IF IsSubTotalLabel(labelCell)
             THEN (IF IsSome(narrow) THEN [financials EXCEPT !.subtotal = narrow]
                   ELSE financials)
        ELSE IF IsPayableLabel(labelCell)
             THEN (IF IsSome(narrow) THEN [financials EXCEPT !.totalPayable = narrow]
                   ELSE financials)
        ELSE IF IsDiscountLabel(labelCell)
             THEN (IF IsSome(broad) THEN [financials EXCEPT !.discount = broad]
                   ELSE financials)
        ELSE [financials EXCEPT
                 !.rows = Append(@, SummaryRowOf(labelCell, indices, values))]

\* route.ts 258-399: a row below the financial header
FinancialsAfterRow(financials, indices, values) ==
    LET labelCell == LabelOfRow(indices, values)
        columns == ColumnValues(indices, values)
        broad == firstNumeric(columns \o rowNumericCandidates(values))
        narrow == firstNumeric(columns)
        hasNumericalData == IsSome(broad)
    IN  IF labelCell = "" \/ ~hasNumericalData THEN financials
        ELSE IF toLowerCase(trim(labelCell)) = "total"
             THEN (IF IsSome(broad) /\ financials.subtotal = None
                   THEN [financials EXCEPT !.subtotal = broad]
                   ELSE financials)
        ELSE IF IsSubTotalLabel(labelCell)
             THEN (IF IsSome(narrow) THEN [financials EXCEPT !.subtotal = narrow]
                   ELSE financials)
        ELSE IF IsDiscountLabel(labelCell)
             THEN (IF IsSome(broad) THEN [financials EXCEPT !.discount = broad]
                   ELSE financials)
        ELSE IF IsPayableLabel(labelCell)
             THEN (IF IsSome(narrow) THEN [financials EXCEPT !.totalPayable = narrow]
                   ELSE financials)
        ELSE [financials EXCEPT
                 !.rows = Append(@, SummaryRowOf(labelCell, indices, values))]

EmptyFinancials == [rows |-> <<>>, subtotal |-> None, totalPayable |-> None, discount |-> None]

(***************************************************************************)
(* finalizeFinancials, route.ts 414-445, on a summary that is not null.    *)
(***************************************************************************)
\* SyntheticTotalRow had the subtotal been put in the total only
SyntheticTotalRowWithoutModules(subtotal) ==
    [room |-> "Total", modules |-> 0, accessories |-> 0, appliances |-> 0,
     services |-> 0, furniture |-> 0, total |-> Some(subtotal)]

SyntheticTotalRow(subtotal) ==
    [room |-> "Total", modules |-> subtotal, accessories |-> 0, appliances |-> 0,
     services |-> 0, furniture |-> 0, total |-> Some(subtotal)]

\* DerivedDiscount had the difference been taken the other way round
DerivedDiscountReversed(financials) ==
    IF /\ financials.discount = None
       /\ financials.subtotal # None
       /\ financials.totalPayable # None
       /\ Abs(Val(financials.subtotal) - Val(financials.totalPayable)) > Scale \div 1000
    THEN Some(Val(financials.totalPayable) - Val(financials.subtotal))
    ELSE financials.discount

\* route.ts 433-442
DerivedDiscount(financials) ==
    IF /\ financials.discount = None
       /\ financials.subtotal # None
       /\ financials.totalPayable # None
       /\ Abs(Val(financials.subtotal) - Val(financials.totalPayable)) > Scale \div 1000
    THEN Some(Val(financials.subtotal) - Val(financials.totalPayable))
    ELSE financials.discount

\* finalizeFinancials had it also derived a missing totalPayable
finalizeFinancialsDerivingPayable(financials) ==
    [financials EXCEPT
        !.rows = IF financials.subtotal # None /\ Len(@) = 0
                 THEN <<SyntheticTotalRow(Val(financials.subtotal))>>
                 ELSE @,
        !.discount = DerivedDiscount(financials),
        !.totalPayable = IF @ = None /\ financials.subtotal # None
                            /\ financials.discount # None
                         THEN Some(Val(financials.subtotal) - Val(financials.discount))
                         ELSE @]

finalizeFinancials(financials) ==
    [financials EXCEPT
        !.rows = IF financials.subtotal # None /\ Len(@) = 0
                 THEN <<SyntheticTotalRow(Val(financials.subtotal))>>
                 ELSE @,
        !.discount = DerivedDiscount(financials)]

(***************************************************************************)
(* parseCabinetStats, route.ts 517-576.  A CabinetStats field is           *)
(* [has, val]: has says that the object carries the key, val is its value  *)
(* (None for undefined).                                                   *)
(***************************************************************************)
NoField == [has |-> FALSE, val |-> None]
EmptyStats == [area |-> NoField, costPerSqFt |-> NoField, total |-> NoField]

\* headerRow.findIndex((value) => value.toUpperCase().includes(word))
HeaderIndex(headerRow, word) ==
    LET Has(value) == includes(toUpperCase(value), word)
    IN  findIndex(headerRow, Has)

RowHasCell(row, word) == \E i \in 1..Len(row) : includes(toUpperCase(row[i]), word)

\* route.ts 552-562
StatsOfRow(row, areaIndex, costIndex, totalIndex) ==
    LET Field(index) == IF index # -1 THEN [has |-> TRUE, val |-> toNumber(At(row, index))]
                        ELSE NoField
    IN  [area |-> Field(areaIndex), costPerSqFt |-> Field(costIndex),
         total |-> Field(totalIndex)]

\* { ...old, ...new }: every key the new object carries replaces the old one
SpreadStats(old, new) ==
    [f \in {"area", "costPerSqFt", "total"} |-> IF new[f].has THEN new[f] ELSE old[f]]

\* route.ts 564-567
MergeStats(stats, normalized, new) ==
    MapSet(stats, normalized,
           SpreadStats(IF MapHas(stats, normalized) THEN MapGet(stats, normalized)
                       ELSE EmptyStats, new))

\* route.ts 569-574 and 641-646
EnsureMaterials(materials, type, label) ==
    IF MapHas(materials, type) THEN materials
    ELSE MapSet(materials, type, [label |-> label, fields |-> EmptyMap])

IsStatsTerminator(typeName) ==
    LET lower == toLowerCase(typeName)
    IN  StartsWith(lower, "wood work") \/ StartsWith(lower, "total")

\* StatsRowsFrom had the terminator row been skipped and the reading gone on
RECURSIVE StatsRowsPastTerminator(_, _, _, _)
StatsRowsPastTerminator(rows, i, cols, room) ==
    IF i > Len(rows) THEN room
    ELSE LET row == rows[i]
             typeName == trim(At(row, cols.type))
             normalized == normalizeTypeName(typeName)
         IN  IF typeName = "" \/ IsStatsTerminator(typeName)
             THEN StatsRowsPastTerminator(rows, i + 1, cols, room)
             ELSE StatsRowsPastTerminator(rows, i + 1, cols,
                      [room EXCEPT
                          !.stats = MergeStats(@, normalized,
                                        StatsOfRow(row, cols.area, cols.cost, cols.total)),
                          !.materials = EnsureMaterials(@, normalized, typeName)])

\* route.ts 537-575: the loop from row i (1-based) on
RECURSIVE StatsRowsFrom(_, _, _, _)
StatsRowsFrom(rows, i, cols, room) ==
    IF i > Len(rows) THEN room
    ELSE LET row == rows[i]
             typeName == trim(At(row, cols.type))
             normalized == normalizeTypeName(typeName)
         IN  IF typeName = "" THEN StatsRowsFrom(rows, i + 1, cols, room)
             ELSE IF IsStatsTerminator(typeName) THEN room
             ELSE StatsRowsFrom(rows, i + 1, cols,
                      [room EXCEPT
                          !.stats = MergeStats(@, normalized,
                                        StatsOfRow(row, cols.area, cols.cost, cols.total)),
                          !.materials = EnsureMaterials(@, normalized, typeName)])

parseCabinetStats(rows, room) ==
    LET IsHeader(row) == RowHasCell(row, "CABINET TYPE")
        headerIndex == findIndex(rows, IsHeader)
        headerRow == rows[headerIndex + 1]
    IN  IF headerIndex = -1 THEN room
        ELSE StatsRowsFrom(rows, headerIndex + 2,
                 [type |-> HeaderIndex(headerRow, "CABINET TYPE"),
                  area |-> HeaderIndex(headerRow, "AREA"),
                  cost |-> HeaderIndex(headerRow, "COST"),
                  total |-> HeaderIndex(headerRow, "TOTAL")],
                 room)

(***************************************************************************)
(* parseDetailItems, route.ts 578-648.                                     *)
(***************************************************************************)
IsTotalDescription(description) == toLowerCase(description) = "total"

\* PushItem had the item been put at the head of the list
UnshiftItem(items, type, item) ==
    MapSet(items, type, <<item>> \o (IF MapHas(items, type) THEN MapGet(items, type) ELSE <<>>))

\* route.ts 625-634
PushItem(items, type, item) ==
    MapSet(items, type, Append(IF MapHas(items, type) THEN MapGet(items, type) ELSE <<>>, item))

\* route.ts 636-639
AddWidth(widthTotals, type, size) ==
    IF size # ""
    THEN MapSet(widthTotals, type,
                (IF MapHas(widthTotals, type) THEN MapGet(widthTotals, type) ELSE 0)
                + extractWidth(size))
    ELSE widthTotals

RECURSIVE DetailRowsFrom(_, _, _, _)
DetailRowsFrom(rows, i, cols, room) ==
    IF i > Len(rows) THEN room
    ELSE LET row == rows[i]
             slValue == trim(At(row, cols.sl))
             code == trim(At(row, cols.code))
             description == trim(At(row, cols.description))
             type == classifyType(description)
             size == IF cols.size # -1 THEN trim(At(row, cols.size)) ELSE ""
             price == IF cols.price # -1 THEN toNumber(At(row, cols.price)) ELSE None
         IN  IF slValue = "" \/ description = "" THEN DetailRowsFrom(rows, i + 1, cols, room)
             ELSE IF IsTotalDescription(description)
                  THEN DetailRowsFrom(rows, i + 1, cols, room)
             ELSE IF type = None THEN DetailRowsFrom(rows, i + 1, cols, room)
             ELSE DetailRowsFrom(rows, i + 1, cols,
                      [room EXCEPT
                          !.items = PushItem(@, Val(type),
                                        [code |-> code, description |-> description,
                                         size |-> size, price |-> price]),
                          !.widthTotals = AddWidth(@, Val(type), size),
                          !.materials = EnsureMaterials(@, Val(type), Val(type))])

parseDetailItems(rows, room) ==
    LET IsHeader(row) == RowHasCell(row, "DESCRIPTION")
        headerIndex == findIndex(rows, IsHeader)
        headerRow == rows[headerIndex + 1]
    IN  IF headerIndex = -1 THEN room
        ELSE DetailRowsFrom(rows, headerIndex + 2,
                 [sl |-> HeaderIndex(headerRow, "SL"),
                  code |-> HeaderIndex(headerRow, "CODE"),
                  description |-> HeaderIndex(headerRow, "DESCRIPTION"),
                  size |-> HeaderIndex(headerRow, "SIZE"),
                  price |-> HeaderIndex(headerRow, "PRICE")],
                 room)

(***************************************************************************)
(* aggregateRooms, route.ts 447-515: what the callback does for one sheet. *)
(***************************************************************************)
\* all cells of a sheet, row by row
RECURSIVE Flatten(_)
Flatten(rows) == IF rows = <<>> THEN <<>> ELSE Head(rows) \o Flatten(Tail(rows))

detectRoomName(rows, fallback) ==
    LET roomCell == find(Flatten(rows), isRoomName)
    IN  IF IsSome(roomCell) THEN trim(Val(roomCell)) ELSE fallback

\* SeedMaterials had the room started without the Summary sheet's materials
SeedNothing(materialsByRoom, roomName) == EmptyMap

\* route.ts 485-488: the Summary sheet's materials of the room, copied
SeedMaterials(materialsByRoom, roomName) ==
    IF MapHas(materialsByRoom, roomName) THEN MapGet(materialsByRoom, roomName)
    ELSE EmptyMap

\* route.ts 478-484
NewRoom(roomName, materialsByRoom) ==
    [name |-> roomName, materials |-> SeedMaterials(materialsByRoom, roomName),
     stats |-> EmptyMap, items |-> EmptyMap, widthTotals |-> EmptyMap]

\* /sq\.?ft\.?$/i
IsSqFtSheet(sheetName) ==
    LET lower == toLowerCase(sheetName)
    IN  \E suffix \in {"sqft", "sq.ft", "sqft.", "sq.ft."} : EndsWith(lower, suffix)

\* /details$/i
IsDetailsSheet(sheetName) == EndsWith(toLowerCase(sheetName), "details")

\* route.ts 498-510
RECURSIVE InlineMaterials(_, _, _)
InlineMaterials(cells, i, materials) ==
    IF i > Len(cells) THEN materials
    ELSE InlineMaterials(cells, i + 1,
             IF includes(cells[i], "Carcass:")
             THEN MergeFirstWins(materials, parseMaterialsBlock(cells[i]))
             ELSE materials)

\* route.ts 492-511
ReadSheet(sheetName, rows, room) ==
    IF IsSqFtSheet(sheetName) THEN parseCabinetStats(rows, room)
    ELSE IF IsDetailsSheet(sheetName) THEN parseDetailItems(rows, room)
    ELSE IF Len(room.materials) = 0
         THEN [room EXCEPT !.materials = InlineMaterials(Flatten(rows), 1, @)]
    ELSE room

\* RoomsAfterSheet had every sheet started a fresh aggregate for its room
RoomsAfterSheetStartingAfresh(roomMap, sheet, materialsByRoom) ==
    IF sheet.name = "Summary" \/ sheet.name = "Terms & Conditions" \/ Len(sheet.rows) = 0
    THEN roomMap
    ELSE LET roomName == detectRoomName(sheet.rows, sheet.name)
         IN  MapSet(roomMap, roomName,
                    ReadSheet(sheet.name, sheet.rows, NewRoom(roomName, materialsByRoom)))

IsSkippedSheet(sheet) ==
    sheet.name = "Summary" \/ sheet.name = "Terms & Conditions" \/ Len(sheet.rows) = 0

\* route.ts 453-512
RoomsAfterSheet(roomMap, sheet, materialsByRoom) ==
    IF IsSkippedSheet(sheet) THEN roomMap
    ELSE LET roomName == detectRoomName(sheet.rows, sheet.name)
             room == IF MapHas(roomMap, roomName) THEN MapGet(roomMap, roomName)
                     ELSE NewRoom(roomName, materialsByRoom)
         IN  MapSet(roomMap, roomName, ReadSheet(sheet.name, sheet.rows, room))

(***************************************************************************)
(* formatRooms, route.ts 698-735.                                          *)
(***************************************************************************)
\* String.prototype.localeCompare in the root collation: texts are compared
\* first by their letters regardless of case (white space before punctuation
\* before digits before letters), and texts equal up to case by the first
\* difference in case, the lower-case letter first.  Result: -1, 0 or 1.
CollationOrder == " -,:.'()/&%+0123456789abcdefghijklmnopqrstuvwxyz"

PrimaryWeight(c) == IndexIn(CollationOrder, LowerChar(c))

RECURSIVE ComparePrimary(_, _)
ComparePrimary(a, b) ==
    IF a = "" /\ b = "" THEN 0
    ELSE IF a = "" THEN -1
    ELSE IF b = "" THEN 1
    ELSE IF PrimaryWeight(Head(a)) < PrimaryWeight(Head(b)) THEN -1
    ELSE IF PrimaryWeight(Head(a)) > PrimaryWeight(Head(b)) THEN 1
    ELSE ComparePrimary(Tail(a), Tail(b))

RECURSIVE CompareCase(_, _)
CompareCase(a, b) ==
    IF a = "" \/ b = "" THEN 0
    ELSE IF Head(a) = Head(b) THEN CompareCase(Tail(a), Tail(b))
    ELSE IF LowerChar(Head(a)) = Head(a) THEN -1
    ELSE 1

localeCompare(a, b) ==
    IF ComparePrimary(a, b) # 0 THEN ComparePrimary(a, b) ELSE CompareCase(a, b)

\* Array.prototype.sort is stable: an element goes after the elements that
\* do not compare greater than it
RECURSIVE InsertSorted(_, _)
InsertSorted(sorted, key) ==
    IF sorted = <<>> THEN <<key>>
    ELSE IF localeCompare(key, Head(sorted)) < 0 THEN <<key>> \o sorted
    ELSE <<Head(sorted)>> \o InsertSorted(Tail(sorted), key)

RECURSIVE SortFrom(_, _, _)
SortFrom(keys, i, sorted) ==
    IF i > Len(keys) THEN sorted ELSE SortFrom(keys, i + 1, InsertSorted(sorted, keys[i]))

\* SortKeys had the keys been left in insertion order
KeysAsInserted(keys) == keys

\* route.ts 705-706
SortKeys(keys) == SortFrom(keys, 1, <<>>)

\* a Set filled from a list: the first occurrence of every key, in order
RECURSIVE Distinct(_, _, _)
Distinct(keys, i, seen) ==
    IF i > Len(keys) THEN seen
    ELSE Distinct(keys, i + 1,
                  IF \E j \in 1..Len(seen) : seen[j] = keys[i] THEN seen
                  ELSE Append(seen, keys[i]))

\* TypeKeys had the materials map been left out of the union
TypeKeysWithoutMaterials(room) ==
    Distinct(MapKeys(room.stats) \o MapKeys(room.items), 1, <<>>)

\* route.ts 700-703
TypeKeys(room) ==
    Distinct(MapKeys(room.materials) \o MapKeys(room.stats) \o MapKeys(room.items), 1, <<>>)

\* StatsField had the code written stats.area || null
StatsFieldOrNull(room, type, f) ==
    IF MapHas(room.stats, type) /\ MapGet(room.stats, type)[f].val # Some(0)
    THEN MapGet(room.stats, type)[f].val
    ELSE None

\* route.ts 717-721: stats.area ?? null
StatsField(room, type, f) ==
    IF MapHas(room.stats, type) THEN MapGet(room.stats, type)[f].val ELSE None

\* route.ts 711: room.widthTotals.get(type) || null
DimensionAggregate(room, type) ==
    IF MapHas(room.widthTotals, type) /\ MapGet(room.widthTotals, type) # 0
    THEN Some(MapGet(room.widthTotals, type))
    ELSE None

\* route.ts 707-728
FormatType(room, type) ==
    [type |-> type,
     label |-> IF MapHas(room.materials, type) THEN MapGet(room.materials, type).label
               ELSE type,
     materials |-> IF MapHas(room.materials, type) THEN MapGet(room.materials, type).fields
                   ELSE EmptyMap,
     stats |-> [areaSqFt |-> StatsField(room, type, "area"),
                costPerSqFt |-> StatsField(room, type, "costPerSqFt"),
                total |-> StatsField(room, type, "total")],
     dimensionAggregate |-> DimensionAggregate(room, type),
     items |-> IF MapHas(room.items, type) THEN MapGet(room.items, type) ELSE <<>>]

FormatRoom(room) ==
    LET keys == SortKeys(TypeKeys(room))
    IN  [name |-> room.name, types |-> [i \in 1..Len(keys) |-> FormatType(room, keys[i])]]

\* Array.from(roomMap.values()), route.ts 514
Rooms(roomMap) == [i \in 1..Len(roomMap) |-> roomMap[i].v]

formatRooms(rooms) == [i \in 1..Len(rooms) |-> FormatRoom(rooms[i])]

(***************************************************************************)
(* POST, route.ts 102-153.                                                 *)
(***************************************************************************)
RECURSIVE SumTotals(_, _)
SumTotals(types, i) ==
    IF i > Len(types) THEN 0 ELSE OrElse(types[i].stats.total, 0) + SumTotals(types, i + 1)

\* route.ts 136-141
RECURSIVE CalculatedTotal(_, _)
CalculatedTotal(payload, i) ==
    IF i > Len(payload) THEN 0
    ELSE SumTotals(payload[i].types, 1) + CalculatedTotal(payload, i + 1)

\* PreferredTotal had the sum of the stats totals always been preferred
PreferCalculatedTotal(summary, calculatedTotal) == calculatedTotal

\* route.ts 143-146
PreferredTotal(summary, calculatedTotal) ==
    IF IsSome(summary) /\ IsSome(Val(summary).totalPayable)
    THEN Val(Val(summary).totalPayable)
    ELSE calculatedTotal

\* Number(x.toFixed(2)) for a positive x: the nearest hundredth
ToFixed2(x) == ((x + Scale \div 200) \div (Scale \div 100)) * (Scale \div 100)

\* route.ts 148-150; extractMetadata never sets totalProjectCost
TotalProjectCost(preferredTotal) ==
    IF preferredTotal > 0 THEN Some(ToFixed2(preferredTotal)) ELSE None

(***************************************************************************)
(* extractMetadata, route.ts 881-1003.  A field that is not set is None.   *)
(***************************************************************************)
\* pattern.test(value) for the label patterns, all of them /.../i: the words
\* of the label with any white space between them, anywhere in the cell, or,
\* for /^word$/i, the cell being the word
MatchesLabel(value, label) ==
    LET lower == toLowerCase(value)
        RECURSIVE WordsFrom(_, _)
        WordsFrom(pos, k) ==
            IF k > Len(label.words) THEN TRUE
            ELSE \E gap \in 0..(IF k = 1 THEN 0 ELSE Len(lower)) :
                    LET from == pos + gap
                        to == from + Len(label.words[k]) - 1
                    IN  /\ to <= Len(lower)
                        /\ AllSpace(SubSeq(lower, pos, from - 1))
                        /\ SubSeq(lower, from, to) = label.words[k]
                        /\ WordsFrom(to + 1, k + 1)
    IN  IF label.whole THEN lower = label.words[1]
        ELSE \E start \in 1..Len(lower) : WordsFrom(start, 1)

\* route.ts 890-902: the first non-empty cell after the first cell that
\* matches the label, trimmed
findValue(values, label) ==
    LET Matches(value) == MatchesLabel(value, label)
        index == findIndex(values, Matches)
        later == {i \in (index + 2)..Len(values) : trim(values[i]) # ""}
    IN  IF index = -1 \/ later = {} THEN None
        ELSE Some(trim(values[CHOOSE i \in later : \A j \in later : i <= j]))

\* /\bquote[-\s]?\w+/i
IsQuoteNumber(value) ==
    LET lower == toLowerCase(value)
        IsWordAt(i) ==
            /\ i >= 1
            /\ i <= Len(lower)
            /\ \/ CharAt(lower, i) \in DOMAIN UpperOf
               \/ IsDigit(CharAt(lower, i))
               \/ CharAt(lower, i) = "_"
    IN  \E i \in 1..(Len(lower) - 4) :
           /\ SubSeq(lower, i, i + 4) = "quote"
           /\ ~IsWordAt(i - 1)
           /\ \/ IsWordAt(i + 5)
              \/ /\ i + 5 <= Len(lower)
                 /\ (CharAt(lower, i + 5) = "-" \/ IsSpace(CharAt(lower, i + 5)))
                 /\ IsWordAt(i + 6)

\* route.ts 972-982: the leftmost match of
\* /(\d{2}[\/-]\d{2}[\/-]\d{2,4})|(\d{4}[\/-]\d{2}[\/-]\d{2})/ in the first
\* cell that has one
DateIn(values) ==
    LET DigitsAt(value, i, n) ==
            /\ i + n - 1 <= Len(value)
            /\ \A j \in i..(i + n - 1) : IsDigit(CharAt(value, j))
        SepAt(value, i) == i <= Len(value) /\ CharAt(value, i) \in {"/", "-"}
        Short(value, i) ==
            /\ DigitsAt(value, i, 2) /\ SepAt(value, i + 2)
            /\ DigitsAt(value, i + 3, 2) /\ SepAt(value, i + 5)
            /\ DigitsAt(value, i + 6, 2)
        Long(value, i) ==
            /\ DigitsAt(value, i, 4) /\ SepAt(value, i + 4)
            /\ DigitsAt(value, i + 5, 2) /\ SepAt(value, i + 7)
            /\ DigitsAt(value, i + 8, 2)
        Hits(value) == {i \in 1..Len(value) : Short(value, i) \/ Long(value, i)}
        HasDate(value) == Hits(value) # {}
        dateMatch == find(values, HasDate)
    IN  IF dateMatch = None THEN None
        ELSE LET value == Val(dateMatch)
                 first == CHOOSE i \in Hits(value) : \A j \in Hits(value) : i <= j
                 length == IF ~Short(value, first) THEN 10
                           ELSE IF DigitsAt(value, first + 6, 4) THEN 10
                           ELSE IF DigitsAt(value, first + 6, 3) THEN 9
                           ELSE 8
             IN  Some(SubSeq(value, first, first + length - 1))

EmptyMeta ==
    [reference |-> None, propertyName |-> None, customer |-> None, priceVersion |-> None,
     quoteValidTill |-> None, quoteStatus |-> None, propertyConfig |-> None,
     totalBuiltUpArea |-> None, designerName |-> None, address |-> None,
     quoteNumber |-> None, designerEmail |-> None, designerPhone |-> None,
     quoteDate |-> None]

\* SetIfEmpty had the later candidate replaced the field
SetAlways(meta, field, candidate) ==
    IF candidate # None THEN [meta EXCEPT ![field] = candidate] ELSE meta

\* if (candidate && !meta.field) meta.field = candidate
SetIfEmpty(meta, field, candidate) ==
    IF candidate # None /\ meta[field] = None THEN [meta EXCEPT ![field] = candidate]
    ELSE meta

\* route.ts 885-991: the callback of processRows for one row
MetaAfterRow(meta, values) ==
    LET Words(words) == [words |-> words, whole |-> FALSE]
        Whole(word) == [words |-> <<word>>, whole |-> TRUE]
        Trimmed(cell) == IF cell = None THEN None ELSE Some(trim(Val(cell)))
        IsEmail(value) == includes(value, "@") /\ includes(value, ".")
        IsPhone(value) ==
            Cardinality({i \in 1..Len(value) : IsDigit(CharAt(value, i))}) >= 7
        reference == findValue(values, Whole("reference"))
        designExpert == findValue(values, Words(<<"design", "expert">>))
        designerName == IF designExpert # None THEN designExpert
                        ELSE findValue(values, Words(<<"dp", "name">>))
        m1 == SetIfEmpty(meta, "reference", reference)
        m2 == SetIfEmpty(m1, "propertyName",
                         IF meta.reference = None THEN reference ELSE None)
        m3 == SetIfEmpty(m2, "propertyName",
                         findValue(values, Words(<<"property", "name">>)))
        m4 == SetIfEmpty(m3, "customer", findValue(values, Whole("customer")))
        m5 == SetIfEmpty(m4, "priceVersion",
                         findValue(values, Words(<<"price", "version">>)))
        m6 == SetIfEmpty(m5, "quoteValidTill",
                         findValue(values, Words(<<"quote", "valid", "till">>)))
        m7 == SetIfEmpty(m6, "quoteStatus",
                         findValue(values, Words(<<"quote", "status">>)))
        m8 == SetIfEmpty(m7, "propertyConfig",
                         findValue(values, Words(<<"property", "config">>)))
        m9 == SetIfEmpty(m8, "totalBuiltUpArea",
                         findValue(values, Words(<<"total", "built">>)))
        m10 == SetIfEmpty(m9, "designerName", designerName)
        m11 == SetIfEmpty(m10, "address", findValue(values, Words(<<"address">>)))
        m12 == SetIfEmpty(m11, "quoteNumber", Trimmed(find(values, IsQuoteNumber)))
        m13 == SetIfEmpty(m12, "designerEmail", Trimmed(find(values, IsEmail)))
        m14 == SetIfEmpty(m13, "designerPhone", Trimmed(find(values, IsPhone)))
    IN  SetIfEmpty(m14, "quoteDate", DateIn(values))

(***************************************************************************)
(* The uploaded workbooks.  A workbook is the list of its sheets in        *)
(* SheetNames order; a sheet is its name and the rows sheet_to_json        *)
(* returns for it (texts, padded to the sheet's width, blank rows left     *)
(* out).                                                                   *)
(***************************************************************************)
MaxFinRows == 2
MaxStatsRows == 2
MaxDetailRows == 2
MaxSheets == 3
MaxMaterialRows == 3

\* the sequences over pool of length at most n
RECURSIVE SeqsUpTo(_, _)
SeqsUpTo(pool, n) ==
    IF n = 0 THEN {<<>>}
    ELSE LET shorter == SeqsUpTo(pool, n - 1)
         IN  shorter \cup {Append(q, x) : q \in shorter, x \in pool}

NoRepeat(q) == \A i, j \in 1..Len(q) : i # j => q[i] # q[j]

Sheet(name, rows) == [name |-> name, rows |-> rows]

RoomTitle == "Flat - Kitchen"

\* Summary sheet: materials rows
SummaryMaterials ==
    << <<RoomTitle, "", "", "">>,
       <<"Wall Unit:\nCarcass: MDF\n\nBase Unit:\nCarcass: Ply\nHandles: SS", "", "", "">> >>

SummaryOtherMaterials ==
    << <<RoomTitle, "", "", "">>,
       <<"alpha unit:\nHandles: Knob", "", "", "">> >>

\* Summary sheet: rows that name rooms and rows that hold materials blocks
MaterialRowPool ==
    { <<RoomTitle, "", "", "">>,
      <<"Flat - Bedroom", "", "", "">>,
      <<"Base Unit:\nCarcass: Ply", "", "", "">>,
      <<"Wall Unit:\nHandles: SS", "Tall Unit:\nCarcass: MDF", "", "">>,
      <<" Flat - Hall ", "Loft:\nCarcass: HDF", "", "">>,
      <<"Base Cabinets:\nCarcass: Oak\n\nbase units:\nCarcass: Teak\nHandles: Knob", "", "", "">> }

MaterialTables == SeqsUpTo(MaterialRowPool, MaxMaterialRows)

\* Summary sheet: the financial table
FinHeaderPool ==
    { <<"ROOM", "UNITS", "ACCESSORIES", "TOTAL">>,
      <<"ROOM", "SERVICES", "NOTES", "TOTAL">>,
      <<"ROOM", "APPLIANCES", "FURNITURE", "GRAND TOTAL">> }

FinRowPool ==
    { <<"Kitchen", "5000", "1200", "7300">>,
      <<"Bedroom", "5", "x", "">>,
      <<"Hall", "0", "", "">>,
      <<"Note", "", "n/a", "">>,
      <<"Total", "", "", "100000">>,
      <<"Sub Total", "", "", "100000">>,
      <<"Total Payable", "", "", "92000">>,
      <<"Total After Tax", "", "", "99999.9995">>,
      <<"Total Payable", "", "", "0">>,
      <<"Discount", "", "", "5000">> }

FinTables ==
    {<<header>> \o rows : header \in FinHeaderPool, rows \in SeqsUpTo(FinRowPool, MaxFinRows)}

\* Summary sheet: a financial table of labelled rows under one header, whose
\* NOTES column is mapped to no bucket
LabelHeader == <<"ROOM", "UNITS", "NOTES", "TOTAL">>

LabelRowPool ==
    { <<"Total", "", "", "100000">>,
      <<"TOTAL", "", "7", "">>,
      <<"Sub Total", "", "", "95000">>,
      <<"SUBTOTAL", "", "3", "">>,
      <<"Total After Discount", "", "", "4000">>,
      <<"Bedroom 2", "", "", "">>,
      <<"", "", "", "8">> }

LabelTables == {<<LabelHeader>> \o rows : rows \in SeqsUpTo(LabelRowPool, MaxFinRows)}

\* Summary sheet: financial tables whose header has a HARDWARE column
HardwareHeaderPool ==
    { <<"ACCESSORIES", "ROOM", "HARDWARE", "TOTAL">>,
      <<"ROOM", "ACCESSORIES", "HARDWARE", "TOTAL">>,
      <<"ROOM", "HARDWARE", "UNITS", "TOTAL">> }

HardwareTables ==
    {<<header, <<"Kitchen", "Kitchen", "20", "30">> >> : header \in HardwareHeaderPool}

\* 'Sq.Ft' sheets
StatsHeaderPool ==
    { <<"CABINET TYPE", "AREA", "COST", "TOTAL">>,
      <<"CABINET TYPE", "AREA", "RATE", "TOTAL">>,
      <<"CABINET TYPE", "NOTES", "COST", "AMOUNT">> }

StatsRowPool ==
    { <<"Base Unit", "12", "450", "5400">>,
      <<"Base Cabinet", "0", "", "x">>,
      <<"Custom Bay Unit", "5", "n/a", "0">>,
      <<" Zeta Unit ", "", "", "-20">>,
      <<"Total", "17", "", "5400">>,
      <<"WOOD WORK cost", "", "", "2000">>,
      <<"", "1", "2", "3">> }

StatsSheet(name, header, rows) ==
    Sheet(name, << <<RoomTitle, "", "", "">>, header >> \o rows)

KitchenStats ==
    StatsSheet("Kitchen Sq.Ft", <<"CABINET TYPE", "AREA", "COST", "TOTAL">>,
               << <<"Base Unit", "12", "450", "5400">>, <<" Zeta Unit ", "", "", "-20">> >>)

\* a second 'Sq.Ft' sheet of the same room, without the area and total columns
KitchenMoreStats ==
    StatsSheet("Kitchen 2 SQFT.", <<"CABINET TYPE", "NOTES", "COST", "AMOUNT">>,
               << <<"Base Unit", "9", "", "9">> >>)

\* a 'Sq.Ft' sheet that names no room: the room is the sheet's name
BedroomStats ==
    Sheet("Bedroom Sq.ft",
          << <<"CABINET TYPE", "AREA", "COST", "TOTAL">>,
             <<"Hinged Wardrobe", "20", "100", "2000">> >>)

\* 'Details' sheets
DetailHeader == <<"SL NO", "CODE", "DESCRIPTION", "SIZE", "PRICE">>

DetailRowPool ==
    { <<"1", "B1", "Base Unit 600", "600Wx720H", "4500">>,
      <<"2", "W1", "Sliding Wardrobe - 2 Door", "600Wx2100H", "x">>,
      <<"3", "H1", "Handle", "128", "50">>,
      <<"", "", "Base note", "", "">>,
      <<"4", "", "Total", "", "9000">>,
      <<"5", "S1", "Shelf unit", "", "">>,
      <<"6", "B2", "Base Corner", "720H x 450.5 w", "x">>,
      <<"7", "W2", "Wall Unit", "n/a", "100">> }

DetailSheet(rows) ==
    Sheet("Kitchen Details", << <<RoomTitle, "", "", "", "">>, DetailHeader >> \o rows)

KitchenDetails ==
    DetailSheet(<< <<"1", "B1", "Base Unit 600", "600Wx720H", "4500">>,
                   <<"5", "S1", "Shelf unit", "", "">> >>)

\* a second 'Details' sheet of the same room, without the code and size columns
KitchenMoreDetails ==
    Sheet("Kitchen 2 details",
          << <<RoomTitle, "", "">>,
             <<"DESCRIPTION", "SL", "PRICE">>,
             <<"Base Unit 900", "9", "7000">>,
             <<"Wall Unit", "10", "">> >>)

\* other sheets
KitchenNotes ==
    Sheet("Kitchen Notes",
          << <<RoomTitle, "">>,
             <<"Base Cabinet:\nCarcass: HDHMR\n\nalpha unit:\nCarcass: Pine", "see drawing">> >>)

CoverSheet == Sheet("Cover", << <<"Quotation", "2024">> >>)

TermsSheet == Sheet("Terms & Conditions", << <<"Prices are valid for 30 days">> >>)

SummarySheet(rows) == Sheet("Summary", rows)

PlainSummary ==
    SummarySheet(SummaryMaterials
                 \o << <<"alpha unit:\nHandles: Knob", "", "", "">>,
                       <<"ROOM", "UNITS", "ACCESSORIES", "TOTAL">>,
                       <<"Kitchen", "5000", "1200", "7300">> >>)

\* the financial table varies
FinWorkbooks ==
    {<<SummarySheet(table), KitchenStats>> : table \in FinTables \cup LabelTables \cup HardwareTables}

\* the rooms and materials rows of the Summary sheet vary
MaterialWorkbooks ==
    {<<SummarySheet(rows), KitchenStats>> : rows \in MaterialTables \ {<<>>}}

\* the room's 'Sq.Ft' sheet varies
StatsWorkbooks ==
    {<<PlainSummary, StatsSheet("Kitchen Sq.Ft", header, rows)>> \o more :
        header \in StatsHeaderPool,
        rows \in SeqsUpTo(StatsRowPool, MaxStatsRows),
        more \in {<<>>, <<KitchenMoreStats>>}}

\* the room's 'Details' sheet varies
DetailWorkbooks ==
    {<<PlainSummary, DetailSheet(rows), KitchenStats>> \o more :
        rows \in SeqsUpTo(DetailRowPool, MaxDetailRows),
        more \in {<<>>, <<KitchenMoreDetails>>}}

\* the sheets and their order vary, with and without Summary materials
SheetPool ==
    {KitchenStats, KitchenDetails, KitchenNotes, CoverSheet, TermsSheet, BedroomStats}

SummaryPool ==
    {<<>>, <<SummarySheet(SummaryMaterials)>>, <<SummarySheet(SummaryOtherMaterials)>>}

SheetWorkbooks ==
    {summary \o sheets :
        summary \in SummaryPool,
        sheets \in {q \in SeqsUpTo(SheetPool, MaxSheets) : NoRepeat(q)}}

Workbooks ==
    FinWorkbooks \cup MaterialWorkbooks \cup StatsWorkbooks \cup DetailWorkbooks
    \cup SheetWorkbooks

(***************************************************************************)
(* The request as a state machine.                                         *)
(***************************************************************************)
VARIABLES
    hasFile,          \* the form carries a file
    workbook,         \* the workbook read from it
    pc,               \* where POST is
    rowIndex,         \* parseSummarySheet: the next row of the Summary sheet
    currentRoom,      \* parseSummarySheet: currentRoom
    headerIndices,    \* parseSummarySheet: headerIndices
    materialsByRoom,  \* parseSummarySheet: materialsByRoom
    financials,       \* parseSummarySheet: financials
    finalizedSummary, \* POST: finalizedSummary (None for null)
    sheetIndex,       \* aggregateRooms: the next sheet
    roomMap,          \* aggregateRooms: roomMap
    response,         \* the response sent
    description,      \* a text handed to normalizeTypeName and classifyType
    normalized,       \* what normalizeTypeName returned for it
    classified,       \* what classifyType returned for it
    meta,             \* extractMetadata: meta
    metaSheet,        \* extractMetadata: the sheet it is at
    metaRow,          \* extractMetadata: the next row of that sheet
    chunkStorage,     \* upload-chunk: chunkStorage
    now,              \* upload-chunk: the clock, in periods of the cleanup interval
    posts,            \* upload-chunk: the chunk POSTs handled so far
    reply             \* upload-chunk: the answer to the last request

vars == <<hasFile, workbook, pc, rowIndex, currentRoom, headerIndices, materialsByRoom,
          financials, finalizedSummary, sheetIndex, roomMap, response>>

\* the state of the two classifiers on their own
typeVars == <<description, normalized, classified>>

\* the state of extractMetadata on its own
metaVars == <<meta, metaSheet, metaRow>>

\* the state of the chunk-upload route
uploadVars == <<chunkStorage, now, posts, reply>>

\* what a request to the conversion route leaves alone
otherVars == <<typeVars, metaVars, uploadVars>>

NoReply == [request |-> "", status |-> 0, complete |-> None, file |-> None]


NoResponse == [status |-> 0, error |-> "", rooms |-> <<>>,
               meta |-> [totalProjectCost |-> None], summary |-> None]

ErrorResponse(message) == [NoResponse EXCEPT !.status = 400, !.error = message]

HasSummary == \E i \in 1..Len(workbook) : workbook[i].name = "Summary"
\* the rows of workbook.Sheets["Summary"]; none when the workbook has no such sheet
SummaryRows ==
    IF HasSummary
    THEN workbook[CHOOSE i \in 1..Len(workbook) : workbook[i].name = "Summary"].rows
    ELSE <<>>

Init ==
    /\ \/ hasFile = TRUE /\ workbook \in Workbooks
       \/ hasFile = FALSE /\ workbook = <<>>
    /\ pc = "start"
    /\ rowIndex = 1
    /\ currentRoom = None
    /\ headerIndices = None
    /\ materialsByRoom = EmptyMap
    /\ financials = EmptyFinancials
    /\ finalizedSummary = None
    /\ sheetIndex = 1
    /\ roomMap = EmptyMap
    /\ response = NoResponse
    /\ description = "" /\ normalized = None /\ classified = None
    /\ meta = EmptyMeta /\ metaSheet = 1 /\ metaRow = 1
    /\ chunkStorage = EmptyMap /\ now = 0 /\ posts = <<>> /\ reply = NoReply

\* route.ts 102-121
Start ==
    /\ pc = "start"
    /\ IF ~hasFile
       THEN pc' = "done" /\ response' = ErrorResponse("Missing Excel file upload")
       ELSE IF Len(workbook) = 0
       THEN pc' = "done" /\ response' = ErrorResponse("No sheets found in uploaded workbook")
       ELSE pc' = "summary" /\ response' = response
    /\ UNCHANGED <<hasFile, workbook, rowIndex, currentRoom, headerIndices, materialsByRoom,
                   financials, finalizedSummary, sheetIndex, roomMap>>
    /\ UNCHANGED otherVars

\* route.ts 174-400: one row of the Summary sheet
SummaryRow ==
    /\ pc = "summary"
    /\ rowIndex <= Len(SummaryRows)
    /\ LET values == SummaryRows[rowIndex]
       IN  /\ currentRoom' = RoomAfterRow(currentRoom, values)
           /\ materialsByRoom' = MaterialsAfterRow(materialsByRoom, currentRoom, values)
           /\ IF headerIndices = None
              THEN /\ headerIndices' = HeaderOfRow(values)
                   /\ financials' = financials
              ELSE /\ headerIndices' = headerIndices
                   /\ financials' = FinancialsAfterRow(financials, Val(headerIndices), values)
    /\ rowIndex' = rowIndex + 1
    /\ UNCHANGED <<hasFile, workbook, pc, finalizedSummary, sheetIndex, roomMap, response>>
    /\ UNCHANGED otherVars

\* route.ts 402-411: what parseSummarySheet returns for a Summary sheet
SummaryResult(fin) ==
    IF Len(fin.rows) # 0 \/ fin.discount # None \/ fin.subtotal # None
       \/ fin.totalPayable # None
    THEN fin
    ELSE EmptyFinancials

\* route.ts 160-162, 402-411 and 124: parseSummarySheet returns, and the
\* summary is finalized
SummaryReturn ==
    /\ pc = "summary"
    /\ rowIndex > Len(SummaryRows)
    /\ finalizedSummary' = IF HasSummary THEN Some(finalizeFinancials(SummaryResult(financials)))
                           ELSE None
    /\ pc' = "aggregate"
    /\ UNCHANGED <<hasFile, workbook, rowIndex, currentRoom, headerIndices, materialsByRoom,
                   financials, sheetIndex, roomMap, response>>
    /\ UNCHANGED otherVars

\* route.ts 453-512: one sheet of the workbook
AggregateSheet ==
    /\ pc = "aggregate"
    /\ sheetIndex <= Len(workbook)
    /\ roomMap' = RoomsAfterSheet(roomMap, workbook[sheetIndex], materialsByRoom)
    /\ sheetIndex' = sheetIndex + 1
    /\ UNCHANGED <<hasFile, workbook, pc, rowIndex, currentRoom, headerIndices,
                   materialsByRoom, financials, finalizedSummary, response>>
    /\ UNCHANGED otherVars

\* route.ts 127-152
ResponseFor(rooms, summary) ==
    IF Len(rooms) = 0 THEN ErrorResponse("No recognizable cabinet data found in workbook")
    ELSE LET payload == formatRooms(rooms)
             preferredTotal == PreferredTotal(summary, CalculatedTotal(payload, 1))
         IN  [status |-> 200, error |-> "", rooms |-> payload,
              meta |-> [totalProjectCost |-> TotalProjectCost(preferredTotal)],
              summary |-> summary]

Respond ==
    /\ pc = "aggregate"
    /\ sheetIndex > Len(workbook)
    /\ response' = ResponseFor(Rooms(roomMap), finalizedSummary)
    /\ pc' = "done"
    /\ UNCHANGED <<hasFile, workbook, rowIndex, currentRoom, headerIndices, materialsByRoom,
                   financials, finalizedSummary, sheetIndex, roomMap>>
    /\ UNCHANGED otherVars

Next == Start \/ SummaryRow \/ SummaryReturn \/ AggregateSheet \/ Respond

Spec == Init /\ [][Next]_vars

(***************************************************************************)
(* normalizeTypeName and classifyType on their own, route.ts 784-872: a    *)
(* text is drawn, and each function is applied to it once.                 *)
(***************************************************************************)
MaxWords == 2

\* no request to the conversion route is under way
NoRequest ==
    /\ pc = "idle"
    /\ rowIndex = 1
    /\ currentRoom = None
    /\ headerIndices = None
    /\ materialsByRoom = EmptyMap
    /\ financials = EmptyFinancials
    /\ finalizedSummary = None
    /\ sheetIndex = 1
    /\ roomMap = EmptyMap
    /\ response = NoResponse

\* headings and descriptions: up to MaxWords of these, a space between them
TypeTexts ==
    LET pool == {"Sliding Wardrobe", "Hinged Wardrobe", "Wardrobe", "Sliding", "Mid Tall",
                 "Base", "Wall", "Loft", "Shelf", "Open Shelf", "Side Panel", "Pooja",
                 "Unit", " Skirting "}
        Joined[q \in SeqsUpTo(pool, MaxWords)] ==
            IF Len(q) = 0 THEN ""
            ELSE IF Len(q) = 1 THEN q[1]
            ELSE Joined[SubSeq(q, 1, Len(q) - 1)] \o " " \o q[Len(q)]
    IN  {Joined[q] : q \in SeqsUpTo(pool, MaxWords) \ {<<>>}}

TypeInit ==
    /\ hasFile = FALSE
    /\ workbook = <<>>
    /\ NoRequest
    /\ description \in TypeTexts
    /\ normalized = None
    /\ classified = None
    /\ meta = EmptyMeta /\ metaSheet = 1 /\ metaRow = 1
    /\ chunkStorage = EmptyMap /\ now = 0 /\ posts = <<>> /\ reply = NoReply

\* route.ts 784-829, as parseCabinetStats and parseMaterialsBlock call it
NormalizeHeading ==
    /\ description # ""
    /\ normalized = None
    /\ normalized' = Some(normalizeTypeName(description))
    /\ UNCHANGED <<vars, metaVars, uploadVars, description, classified>>

\* route.ts 831-872, as parseDetailItems calls it
ClassifyLineItem ==
    /\ description # ""
    /\ classified = None
    /\ classified' = Some(classifyType(description))
    /\ UNCHANGED <<vars, metaVars, uploadVars, description, normalized>>

TypeNext == NormalizeHeading \/ ClassifyLineItem

TypeSpec == TypeInit /\ [][TypeNext]_typeVars

(***************************************************************************)
(* extractMetadata on its own, route.ts 881-1003: the scan of a workbook,  *)
(* sheet by sheet and row by row.  POST calls it on the uploaded workbook  *)
(* before it answers (route.ts 134).                                       *)
(***************************************************************************)
MaxMetaRows == 2

MetaRowPool ==
    { <<"Reference", "", "REF-1", "Property Config", "3BHK", "">>,
      <<"Property Name", "Green Villa", "", "Total Built Up Area", "1200", "">>,
      <<"REFERENCE", "REF-2", "property  name", " Blue Flat ", "", "">>,
      <<"Customer", "Asha", "Quote-123", "", "Address", "">>,
      <<"customer", " Ravi ", "ravi@mail.in", "98765 43210", "", "">>,
      <<"Design Expert", "", "Meera", "12/05/2024", "DP Name", "Kiran">>,
      <<"DP Name", "Kiran", "dated 2024-05-12", "Address", "", "12 MG Road">>,
      <<"Quote Status", "Open", "Price Version", "V2", "Quote Valid Till", "31-12-24">> }

\* up to MaxMetaRows different rows, the first of them on a 'Cover' sheet and
\* the rest on the 'Summary' sheet
MetaWorkbooks ==
    UNION {{<<Sheet("Cover", SubSeq(q, 1, k)), Sheet("Summary", SubSeq(q, k + 1, Len(q)))>> :
               k \in 0..Len(q)} :
           q \in {r \in SeqsUpTo(MetaRowPool, MaxMetaRows) : NoRepeat(r)}}

MetaInit ==
    /\ hasFile = TRUE
    /\ workbook \in MetaWorkbooks
    /\ NoRequest
    /\ description = "" /\ normalized = None /\ classified = None
    /\ meta = EmptyMeta
    /\ metaSheet = 1
    /\ metaRow = 1
    /\ chunkStorage = EmptyMap /\ now = 0 /\ posts = <<>> /\ reply = NoReply

\* route.ts 885-991: processRows reads the next row of the sheet
ScanRow ==
    /\ metaSheet <= Len(workbook)
    /\ metaRow <= Len(workbook[metaSheet].rows)
    /\ meta' = MetaAfterRow(meta, workbook[metaSheet].rows[metaRow])
    /\ metaRow' = metaRow + 1
    /\ UNCHANGED <<vars, typeVars, uploadVars, metaSheet>>

\* route.ts 986-1000: the sheet is done, on to the next one
ScanNextSheet ==
    /\ metaSheet <= Len(workbook)
    /\ metaRow > Len(workbook[metaSheet].rows)
    /\ metaSheet' = metaSheet + 1
    /\ metaRow' = 1
    /\ UNCHANGED <<vars, typeVars, uploadVars, meta>>

MetaNext == ScanRow \/ ScanNextSheet

MetaSpec == MetaInit /\ [][MetaNext]_metaVars

(***************************************************************************)
(* The chunk-upload route, src/app/api/upload-chunk/route.ts.  A chunk is  *)
(* a text, and the reassembled file the chunks' texts one after the other. *)
(* Time is counted in periods of the cleanup interval: a request between   *)
(* two runs of the cleanup reads a clock within that period, so an upload  *)
(* whose first chunk came in period t is older than the limit at the run   *)
(* that ends period t + 2 and at no earlier run.                           *)
(***************************************************************************)
MaxChunks == 2
MaxPosts == 3
MaxCleanups == 3

\* route.ts 137 and 133, in minutes
CleanupPeriodMinutes == 5
MaxAgeMinutes == 10

UploadIds == {"upload-1"}

UploadInit ==
    /\ hasFile = FALSE
    /\ workbook = <<>>
    /\ NoRequest
    /\ description = "" /\ normalized = None /\ classified = None
    /\ meta = EmptyMeta /\ metaSheet = 1 /\ metaRow = 1
    /\ chunkStorage = EmptyMap
    /\ now = 0
    /\ posts = <<>>
    /\ reply = NoReply

\* route.ts 44-52: the chunks 0 .. totalChunks - 1 one after the other
Reassemble(chunks, totalChunks) ==
    LET Joined[i \in 0..totalChunks] ==
            IF i = 0 THEN "" ELSE Joined[i - 1] \o MapGet(chunks, i - 1)
    IN  Joined[totalChunks]

\* route.ts 11-80: POST of one chunk.  Reading a chunk that is not there
\* (chunks.get(i)! is undefined, 44-45) throws, and the handler answers 500
\* with the chunk already stored
Post ==
    /\ Len(posts) < MaxPosts
    /\ \E uploadId \in UploadIds, chunkIndex \in -1..(MaxChunks - 1),
          totalChunks \in 1..MaxChunks, chunk \in {"x", "y"} :
          LET created ==
                  IF MapHas(chunkStorage, uploadId) THEN chunkStorage
                  ELSE MapSet(chunkStorage, uploadId,
                              [chunks |-> EmptyMap, totalChunks |-> totalChunks,
                               timestamp |-> now])
              upload == MapGet(created, uploadId)
              chunks == MapSet(upload.chunks, chunkIndex, chunk)
              allReceived == Len(chunks) = totalChunks
              missing == \E i \in 0..(totalChunks - 1) : ~MapHas(chunks, i)
          IN  /\ chunkStorage' =
                     MapSet(created, uploadId,
                            [upload EXCEPT !.chunks =
                                IF allReceived /\ ~missing
                                THEN MapSet(EmptyMap, -1, Reassemble(chunks, totalChunks))
                                ELSE chunks])
              /\ reply' = IF ~allReceived
                          THEN [request |-> "POST", status |-> 200,
                                complete |-> Some(FALSE), file |-> None]
                          ELSE IF missing
                          THEN [request |-> "POST", status |-> 500,
                                complete |-> None, file |-> None]
                          ELSE [request |-> "POST", status |-> 200,
                                complete |-> Some(TRUE), file |-> None]
              /\ posts' = Append(posts, [uploadId |-> uploadId, chunkIndex |-> chunkIndex,
                                         totalChunks |-> totalChunks, chunk |-> chunk,
                                         at |-> now])
    /\ UNCHANGED <<vars, typeVars, metaVars, now>>

\* route.ts 82-125: GET of an upload
Get ==
    /\ \E uploadId \in UploadIds :
          reply' =
              IF ~MapHas(chunkStorage, uploadId)
              THEN [request |-> "GET", status |-> 404, complete |-> None, file |-> None]
              ELSE IF ~MapHas(MapGet(chunkStorage, uploadId).chunks, -1)
              THEN [request |-> "GET", status |-> 200, complete |-> Some(FALSE),
                    file |-> None]
              ELSE [request |-> "GET", status |-> 200, complete |-> None,
                    file |-> Some(MapGet(MapGet(chunkStorage, uploadId).chunks, -1))]
    /\ UNCHANGED <<vars, typeVars, metaVars, chunkStorage, now, posts>>

\* route.ts 127-138: the interval fires at the end of a period and deletes
\* the uploads whose timestamp is more than ten minutes old
Cleanup ==
    /\ now < MaxCleanups
    /\ now' = now + 1
    /\ LET Young(entry) ==
               ~((now' - entry.v.timestamp) * CleanupPeriodMinutes > MaxAgeMinutes)
       IN  chunkStorage' = SelectSeq(chunkStorage, Young)
    /\ UNCHANGED <<vars, typeVars, metaVars, posts, reply>>

UploadNext == Post \/ Get \/ Cleanup

UploadSpec == UploadInit /\ [][UploadNext]_uploadVars

(***************************************************************************)
(* Properties.                                                             *)
(***************************************************************************)
Succeeded == pc = "done" /\ response.status = 200

\* the aggregate behind the i-th room of the response
Aggregate(i) == roomMap[i].v

ResponseTypeKeys(i) == {response.rooms[i].types[j].type : j \in 1..Len(response.rooms[i].types)}

\* the entry of type key in the i-th room of the response
ResponseType(i, key) ==
    LET types == response.rooms[i].types
    IN  types[CHOOSE j \in 1..Len(types) : types[j].type = key]

\* C1: in a successful response, the type keys of every room are exactly the
\* keys of the room's materials, stats and items maps taken together, each
\* key once.
C1_TypeKeysAreTheUnion ==
    Succeeded =>
        \A i \in 1..Len(response.rooms) :
            /\ ResponseTypeKeys(i) = MapKeySet(Aggregate(i).materials)
                                     \cup MapKeySet(Aggregate(i).stats)
                                     \cup MapKeySet(Aggregate(i).items)
            /\ Cardinality(ResponseTypeKeys(i)) = Len(response.rooms[i].types)

\* a room with stats and items whose materials carry a key that neither the
\* stats nor the items have
C1_Witness ==
    /\ Succeeded
    /\ \E i \in 1..Len(response.rooms) :
          /\ Aggregate(i).stats # EmptyMap
          /\ Aggregate(i).items # EmptyMap
          /\ MapKeySet(Aggregate(i).stats) # MapKeySet(Aggregate(i).items)
          /\ \E key \in MapKeySet(Aggregate(i).materials) :
                key \notin MapKeySet(Aggregate(i).stats) \cup MapKeySet(Aggregate(i).items)

\* the sheets that aggregateRooms reads for the room named name
RoomSheets(name) ==
    {n \in 1..Len(workbook) :
        /\ ~IsSkippedSheet(workbook[n])
        /\ detectRoomName(workbook[n].rows, workbook[n].name) = name}

IsInlineSheet(n) == ~IsSqFtSheet(workbook[n].name) /\ ~IsDetailsSheet(workbook[n].name)

\* the type headings of the inline materials texts of sheet n
InlineKeys(n) ==
    LET cells == Flatten(workbook[n].rows)
    IN  UNION {MapKeySet(parseMaterialsBlock(cells[c])) :
                  c \in {d \in 1..Len(cells) : includes(cells[d], "Carcass:")}}

\* C3: in a successful response, every (room, type) for which the Summary
\* sheet supplied a materials block carries the Summary's label and fields,
\* whatever the room's own sheets contain and wherever they stand.
C3_SummaryMaterialsWin ==
    Succeeded =>
        \A i \in 1..Len(response.rooms) :
            LET name == response.rooms[i].name
            IN  MapHas(materialsByRoom, name) =>
                    \A key \in MapKeySet(MapGet(materialsByRoom, name)) :
                        /\ key \in ResponseTypeKeys(i)
                        /\ ResponseType(i, key).label
                               = MapGet(MapGet(materialsByRoom, name), key).label
                        /\ ResponseType(i, key).materials
                               = MapGet(MapGet(materialsByRoom, name), key).fields

\* a sheet of the room holds inline materials, with other fields, for a type
\* the Summary sheet supplied
C3_Witness ==
    /\ Succeeded
    /\ \E i \in 1..Len(response.rooms) :
          LET name == response.rooms[i].name
          IN  /\ MapHas(materialsByRoom, name)
              /\ \E n \in RoomSheets(name) :
                    /\ IsInlineSheet(n)
                    /\ \E key \in InlineKeys(n) :
                          /\ MapHas(MapGet(materialsByRoom, name), key)
                          /\ \E c \in 1..Len(Flatten(workbook[n].rows)) :
                                LET parsed == parseMaterialsBlock(Flatten(workbook[n].rows)[c])
                                IN  /\ MapHas(parsed, key)
                                    /\ MapGet(parsed, key).fields
                                           # MapGet(MapGet(materialsByRoom, name), key).fields

\* the summary that finalizeFinancials received, and the one it returned
Finalized == pc \in {"aggregate", "done"} /\ finalizedSummary # None
RawSummary == SummaryResult(financials)
FinalSummary == Val(finalizedSummary)

Thousandth == Scale \div 1000

\* C4: with the discount unknown and subtotal and totalPayable known,
\* finalizeFinancials sets discount to subtotal - totalPayable when the
\* difference exceeds 0.001 in absolute value, and leaves it unset otherwise.
C4_DiscountReconciled ==
    (Finalized /\ RawSummary.discount = None
       /\ RawSummary.subtotal # None /\ RawSummary.totalPayable # None) =>
        LET difference == Val(RawSummary.subtotal) - Val(RawSummary.totalPayable)
        IN  IF difference > Thousandth \/ difference < -Thousandth
            THEN FinalSummary.discount = Some(difference)
            ELSE FinalSummary.discount = None

\* 100000 and 92000 have given 8000
C4_Witness ==
    /\ Finalized
    /\ RawSummary.discount = None
    /\ RawSummary.subtotal = Some(100000 * Scale)
    /\ RawSummary.totalPayable = Some(92000 * Scale)
    /\ FinalSummary.discount = Some(8000 * Scale)

\* 100000 and 99999.9995 have given no discount
C4_NoiseWitness ==
    /\ Finalized
    /\ RawSummary.discount = None
    /\ RawSummary.subtotal = Some(100000 * Scale)
    /\ RawSummary.totalPayable = Some(99999 * Scale + 9995)
    /\ FinalSummary.discount = None

\* C7: finalizeFinancials leaves subtotal and totalPayable as they were, and
\* a known discount as it was.
C7_FinalizerFrame ==
    Finalized =>
        /\ FinalSummary.subtotal = RawSummary.subtotal
        /\ FinalSummary.totalPayable = RawSummary.totalPayable
        /\ RawSummary.discount # None => FinalSummary.discount = RawSummary.discount

\* subtotal and discount known, totalPayable unknown before and after
C7_Witness ==
    /\ Finalized
    /\ RawSummary.subtotal # None
    /\ RawSummary.discount # None
    /\ RawSummary.totalPayable = None
    /\ FinalSummary.totalPayable = None

NothingRecognized ==
    \A i \in 1..Len(roomMap) :
        /\ Aggregate(i).materials = EmptyMap
        /\ Aggregate(i).stats = EmptyMap
        /\ Aggregate(i).items = EmptyMap

\* C8: a workbook with sheets, none of which contributed stats, items or
\* materials to any room, is answered with the 'no recognizable data' error.
C8_NoDataIsAnError ==
    (pc = "done" /\ hasFile /\ Len(workbook) > 0 /\ NothingRecognized) =>
        /\ response.status = 400
        /\ response.error = "No recognizable cabinet data found in workbook"

\* the sum of the stats totals of all types of all rooms, an unknown total
\* counting 0
RECURSIVE SumOfTotals(_, _)
SumOfTotals(stats, i) ==
    IF i > Len(stats) THEN 0 ELSE OrElse(stats[i].v.total.val, 0) + SumOfTotals(stats, i + 1)

RECURSIVE SumOfRooms(_)
SumOfRooms(i) ==
    IF i > Len(roomMap) THEN 0 ELSE SumOfTotals(Aggregate(i).stats, 1) + SumOfRooms(i + 1)

Hundredth == Scale \div 100

Rounded(x) == ((2 * x + Hundredth) \div (2 * Hundredth)) * Hundredth

SummaryPayable == IF finalizedSummary = None THEN None ELSE FinalSummary.totalPayable

\* C9 as claimed: totalProjectCost is the summary's totalPayable whenever
\* there is one, and the sum of the stats totals otherwise.
C9_TotalCostAsClaimed ==
    Succeeded =>
        response.meta.totalProjectCost =
            IF SummaryPayable # None THEN Some(Rounded(Val(SummaryPayable)))
            ELSE Some(Rounded(SumOfRooms(1)))

\* C9 as amended: the preferred total is the summary's totalPayable whenever
\* there is one and the sum of the stats totals otherwise; totalProjectCost
\* is the preferred total rounded to 2 decimals when that is positive and is
\* absent when it is not.
C9_TotalCost ==
    Succeeded =>
        LET preferred == IF SummaryPayable # None THEN Val(SummaryPayable)
                         ELSE SumOfRooms(1)
        IN  response.meta.totalProjectCost =
                IF preferred > 0 THEN Some(Rounded(preferred)) ELSE None

\* a positive totalPayable that differs from the sum of the stats totals is
\* the total project cost
C9_Witness ==
    /\ Succeeded
    /\ SummaryPayable # None
    /\ Val(SummaryPayable) > 0
    /\ SumOfRooms(1) > 0
    /\ SumOfRooms(1) # Val(SummaryPayable)
    /\ response.meta.totalProjectCost = Some(Rounded(Val(SummaryPayable)))

\* the numbers that the numeric cell texts of the workbooks stand for, as
\* <<text, whole part, ten-thousandths>>; every other cell text of the
\* workbooks is empty or holds no number
KnownNumbers ==
    { <<"0", 0, 0>>, <<"1", 1, 0>>, <<"2", 2, 0>>, <<"3", 3, 0>>, <<"5", 5, 0>>,
      <<"9", 9, 0>>, <<"12", 12, 0>>, <<"17", 17, 0>>, <<"20", 20, 0>>,
      <<"100", 100, 0>>, <<"450", 450, 0>>, <<"1200", 1200, 0>>, <<"2000", 2000, 0>>,
      <<"5000", 5000, 0>>, <<"5400", 5400, 0>>, <<"7300", 7300, 0>>,
      <<"92000", 92000, 0>>, <<"100000", 100000, 0>>, <<"99999.9995", 99999, 9995>>,
      <<"-20", -20, 0>>, <<"7", 7, 0>>, <<"8", 8, 0>>, <<"4000", 4000, 0>>,
      <<"95000", 95000, 0>>, <<"30", 30, 0>>, <<"50", 50, 0>>, <<"4500", 4500, 0>>,
      <<"7000", 7000, 0>>, <<"9000", 9000, 0>> }

NumberIn(cell) ==
    IF \E known \in KnownNumbers : known[1] = cell
    THEN LET known == CHOOSE k \in KnownNumbers : k[1] = cell
         IN  Some(known[2] * Scale + known[3])
    ELSE None

HasNoDigit(cell) == \A i \in 1..Len(cell) : ~IsDigit(CharAt(cell, i))

\* the 1-based row of the 'CABINET TYPE' header of sheet n, 0 if it has none
StatsHeaderAt(n) ==
    LET rows == workbook[n].rows
        hits == {i \in 1..Len(rows) : RowHasCell(rows[i], "CABINET TYPE")}
    IN  IF hits = {} THEN 0 ELSE CHOOSE i \in hits : \A j \in hits : i <= j

StatsTypeCell(n, i) ==
    trim(At(workbook[n].rows[i], HeaderIndex(workbook[n].rows[StatsHeaderAt(n)], "CABINET TYPE")))

\* the rows of sheet n that parseCabinetStats retains: the rows below the
\* header that name a type, down to the first 'wood work' or 'total' row
RetainedStatsRowsOf(n) ==
    LET rows == workbook[n].rows
        header == StatsHeaderAt(n)
        below == (header + 1)..Len(rows)
        stops == {i \in below : IsStatsTerminator(StatsTypeCell(n, i))}
    IN  IF IsSkippedSheet(workbook[n]) \/ ~IsSqFtSheet(workbook[n].name) \/ header = 0
        THEN {}
        ELSE {i \in below : StatsTypeCell(n, i) # "" /\ \A j \in stops : i < j}

RetainedStatsRows ==
    UNION {{<<n, i>> : i \in RetainedStatsRowsOf(n)} : n \in 1..Len(workbook)}

StatsFields == {"area", "costPerSqFt", "total"}
HeaderWord(f) == CASE f = "area" -> "AREA" [] f = "costPerSqFt" -> "COST" [] OTHER -> "TOTAL"
ResponseName(f) == IF f = "area" THEN "areaSqFt" ELSE f

\* the 0-based column of field f in sheet n, -1 if its header has none
StatsColumn(n, f) == HeaderIndex(workbook[n].rows[StatsHeaderAt(n)], HeaderWord(f))

StatsCell(ref, f) == At(workbook[ref[1]].rows[ref[2]], StatsColumn(ref[1], f))

RoomOfSheet(n) == detectRoomName(workbook[n].rows, workbook[n].name)

RoomIndex(name) == CHOOSE i \in 1..Len(response.rooms) : response.rooms[i].name = name

\* the response field f of the (room, type) that stats row ref belongs to
ResponseStatOf(ref, f) ==
    ResponseType(RoomIndex(RoomOfSheet(ref[1])),
                 normalizeTypeName(StatsTypeCell(ref[1], ref[2]))).stats[ResponseName(f)]

\* C2 as claimed: for every retained stats row and each field, a missing
\* column or an empty or non-numeric cell gives null in the response, and a
\* cell holding 0 gives 0.
C2_EveryStatsRowAsClaimed ==
    Succeeded =>
        \A ref \in RetainedStatsRows : \A f \in StatsFields :
            /\ (StatsColumn(ref[1], f) = -1 \/ HasNoDigit(StatsCell(ref, f)))
                   => ResponseStatOf(ref, f) = None
            /\ (StatsColumn(ref[1], f) # -1 /\ StatsCell(ref, f) = "0")
                   => ResponseStatOf(ref, f) = Some(0)

Before(a, b) == a[1] < b[1] \/ (a[1] = b[1] /\ a[2] < b[2])

\* among the stats rows retained, those of the i-th room and type key whose
\* sheet has a column for field f
DecidingRows(retained, i, key, f) ==
    {ref \in retained :
        /\ StatsColumn(ref[1], f) # -1
        /\ RoomOfSheet(ref[1]) = response.rooms[i].name
        /\ normalizeTypeName(StatsTypeCell(ref[1], ref[2])) = key}

LastRow(refs) == CHOOSE a \in refs : \A b \in refs : a = b \/ Before(b, a)

\* C2 as amended: for every (room, type) of the response and each field, the
\* last retained stats row of that type in a sheet with that column decides:
\* no such row, or an empty or non-numeric cell in it, gives null; a cell
\* holding 0 gives 0; any cell gives the number it holds.
C2_LastStatsRowDecides ==
    Succeeded =>
        LET retained == RetainedStatsRows
        IN  \A i \in 1..Len(response.rooms) : \A key \in ResponseTypeKeys(i) :
                \A f \in StatsFields :
                    LET field == ResponseType(i, key).stats[ResponseName(f)]
                        refs == DecidingRows(retained, i, key, f)
                        cell == StatsCell(LastRow(refs), f)
                    IN  IF refs = {} THEN field = None
                        ELSE /\ HasNoDigit(cell) => field = None
                             /\ cell = "0" => field = Some(0)
                             /\ field = NumberIn(cell)

\* a type whose response carries a 0 read from a cell, a null for a column
\* that no sheet has and a null for a cell without a number
C2_Witness ==
    /\ Succeeded
    /\ LET retained == RetainedStatsRows
       IN  \E i \in 1..Len(response.rooms) : \E key \in ResponseTypeKeys(i) :
              /\ DecidingRows(retained, i, key, "area") # {}
              /\ StatsCell(LastRow(DecidingRows(retained, i, key, "area")), "area") = "0"
              /\ ResponseType(i, key).stats.areaSqFt = Some(0)
              /\ DecidingRows(retained, i, key, "total") # {}
              /\ StatsCell(LastRow(DecidingRows(retained, i, key, "total")), "total") = "x"
              /\ ResponseType(i, key).stats.total = None
              /\ DecidingRows(retained, i, key, "costPerSqFt") = {}
              /\ \E ref \in retained :
                    /\ RoomOfSheet(ref[1]) = response.rooms[i].name
                    /\ normalizeTypeName(StatsTypeCell(ref[1], ref[2])) = key
              /\ ResponseType(i, key).stats.costPerSqFt = None

\* UTF-16 code unit order of the characters of the workbooks
CodeUnitOrder ==
    " %&'()+,-./0123456789:ABCDEFGHIJKLMNOPQRSTUVWXYZabcdefghijklmnopqrstuvwxyz"

RECURSIVE CodeUnitLess(_, _)
CodeUnitLess(a, b) ==
    IF b = "" THEN FALSE
    ELSE IF a = "" THEN TRUE
    ELSE IF Head(a) = Head(b) THEN CodeUnitLess(Tail(a), Tail(b))
    ELSE IndexIn(CodeUnitOrder, Head(a)) < IndexIn(CodeUnitOrder, Head(b))

HeadingWords ==
    {"base", "wall", "tall", "suspended", "open shelf", "panel", "skirt", "loft",
     "pooja", "filler", "wardrobe"}

\* the words that the rules of classifyType look for
DescriptionWords == HeadingWords \cup {"shelf"}

NoHeadingRule(text) == \A word \in HeadingWords : ~includes(toLowerCase(text), word)

NoDescriptionRule(text) == \A word \in DescriptionWords : ~includes(toLowerCase(text), word)

\* the titles of the sections of a materials block
BlockTitles(cell) ==
    LET sections == SeqFilter(SeqMap(SplitSections(cell), trim), NonEmptyText)
    IN  {TitleLine(SectionLines(sections[i])) : i \in 1..Len(sections)} \ {""}

\* the 1-based row of the 'DESCRIPTION' header of a sheet, 0 if it has none
DetailHeaderAt(sheet) ==
    LET hits == {i \in 1..Len(sheet.rows) : RowHasCell(sheet.rows[i], "DESCRIPTION")}
    IN  IF hits = {} THEN 0 ELSE CHOOSE i \in hits : \A j \in hits : i <= j

DescriptionCell(sheet, i) ==
    trim(At(sheet.rows[i], HeaderIndex(sheet.rows[DetailHeaderAt(sheet)], "DESCRIPTION")))

\* the rows below the header whose description matches no rule
UnruledRows(sheet) ==
    IF DetailHeaderAt(sheet) = 0 THEN {}
    ELSE {i \in (DetailHeaderAt(sheet) + 1)..Len(sheet.rows) :
             NoDescriptionRule(DescriptionCell(sheet, i))}

RECURSIVE RowsExcept(_, _, _)
RowsExcept(rows, i, dropped) ==
    IF i > Len(rows) THEN <<>>
    ELSE (IF i \in dropped THEN <<>> ELSE <<rows[i]>>) \o RowsExcept(rows, i + 1, dropped)

\* the sheet without the rows whose description matches no rule
WithoutUnruledRows(sheet) == Sheet(sheet.name, RowsExcept(sheet.rows, 1, UnruledRows(sheet)))

\* the room that reading sheet n starts from
RoomBefore(n) ==
    IF MapHas(roomMap, RoomOfSheet(n)) THEN MapGet(roomMap, RoomOfSheet(n))
    ELSE NewRoom(RoomOfSheet(n), materialsByRoom)

\* a materials title of the Summary row that no rule matches is a key of
\* the current room's materials, labelled with itself
SummaryTitlesKept ==
    LET values == SummaryRows[rowIndex]
        cell == find(values, IsMaterialCell)
    IN  (IsSome(cell) /\ IsSome(currentRoom'))
        => \A title \in BlockTitles(Val(cell)) :
              NoHeadingRule(title)
              => /\ MapHas(MapGet(materialsByRoom', Val(currentRoom')), title)
                 /\ MapGet(MapGet(materialsByRoom', Val(currentRoom')), title).label = title

\* a stats heading that no rule matches is a key of the room's stats and
\* materials
StatsHeadingsKept ==
    LET room == MapGet(roomMap', RoomOfSheet(sheetIndex))
    IN  \A i \in RetainedStatsRowsOf(sheetIndex) :
           NoHeadingRule(StatsTypeCell(sheetIndex, i))
           => /\ MapHas(room.stats, StatsTypeCell(sheetIndex, i))
              /\ MapHas(room.materials, StatsTypeCell(sheetIndex, i))

\* a materials title of a sheet read for its inline blocks that no rule
\* matches is a key of the room's materials
InlineTitlesKept ==
    LET room == MapGet(roomMap', RoomOfSheet(sheetIndex))
        cells == Flatten(workbook[sheetIndex].rows)
    IN  Len(RoomBefore(sheetIndex).materials) = 0
        => \A c \in 1..Len(cells) :
              includes(cells[c], "Carcass:")
              => \A title \in BlockTitles(cells[c]) :
                    NoHeadingRule(title) => MapHas(room.materials, title)

\* every key of a room's materials and stats is the key of a type of the response
KeysAnswered ==
    \A i \in 1..Len(roomMap) :
       \A key \in MapKeySet(roomMap[i].v.materials) \cup MapKeySet(roomMap[i].v.stats) :
          \E j \in 1..Len(response'.rooms[i].types) : response'.rooms[i].types[j].type = key

\* C5: a materials title or stats heading that no classification rule matches
\* becomes a type keyed by its trimmed text as it stands, and the rows of a
\* 'Details' sheet whose description matches no rule leave the room as it
\* would be without them: no item, no width, no materials entry
C5_UnmatchedHeadingsKeptDetailsDropped ==
    [][ /\ (pc = "summary" /\ rowIndex' = rowIndex + 1) => SummaryTitlesKept
        /\ (pc = "aggregate" /\ sheetIndex' = sheetIndex + 1
            /\ ~IsSkippedSheet(workbook[sheetIndex]))
           => IF IsSqFtSheet(workbook[sheetIndex].name) THEN StatsHeadingsKept
              ELSE IF IsDetailsSheet(workbook[sheetIndex].name)
                   THEN roomMap' = RoomsAfterSheet(roomMap,
                                       WithoutUnruledRows(workbook[sheetIndex]),
                                       materialsByRoom)
              ELSE InlineTitlesKept
        /\ (pc = "aggregate" /\ pc' = "done" /\ response'.status = 200) => KeysAnswered
      ]_vars

\* a response whose room has the types 'Zeta Unit' (a stats heading) and
\* 'alpha unit' (a materials title), from a workbook whose 'Details' sheet
\* has a numbered 'Handle' row, which is no item of any type
C5_Witness ==
    /\ Succeeded
    /\ \E n \in 1..Len(workbook) :
          /\ IsDetailsSheet(workbook[n].name)
          /\ \E i \in UnruledRows(workbook[n]) :
                /\ DescriptionCell(workbook[n], i) = "Handle"
                /\ trim(workbook[n].rows[i][1]) # ""
          /\ LET types == response.rooms[RoomIndex(RoomOfSheet(n))].types
             IN  /\ \E j \in 1..Len(types) : types[j].type = "Zeta Unit"
                 /\ \E j \in 1..Len(types) : types[j].type = "alpha unit"
                 /\ \E j \in 1..Len(types) : Len(types[j].items) > 0
                 /\ \A j \in 1..Len(types) :
                       \A k \in 1..Len(types[j].items) :
                          types[j].items[k].description # "Handle"

(***************************************************************************)
(* The rows of the Summary sheet's financial table.                        *)
(***************************************************************************)
\* the number of the cell of a mapped column, 0 otherwise
BucketOf(column, values) ==
    IF column = None THEN 0 ELSE OrElse(NumberIn(At(values, Val(column))), 0)

\* C10: a row that parseSummarySheet adds to the financial rows has in each of
\* its five buckets the number of the cell of the mapped column, 0 when the
\* column is not mapped or the cell holds no number; its total is the number
\* of the TOTAL cell if it holds one, else the sum of the buckets if that is
\* more than 0, else absent
C10_SummaryRowBuckets ==
    [][ (pc = "summary" /\ Len(financials'.rows) = Len(financials.rows) + 1)
        => LET values == SummaryRows[rowIndex]
               indices == Val(headerIndices)
               row == financials'.rows[Len(financials'.rows)]
               sum == BucketOf(indices.modules, values)
                      + BucketOf(indices.accessories, values)
                      + BucketOf(indices.appliances, values)
                      + BucketOf(indices.services, values)
                      + BucketOf(indices.furniture, values)
               totalCell == NumberIn(At(values, indices.total))
           IN  /\ row.modules = BucketOf(indices.modules, values)
               /\ row.accessories = BucketOf(indices.accessories, values)
               /\ row.appliances = BucketOf(indices.appliances, values)
               /\ row.services = BucketOf(indices.services, values)
               /\ row.furniture = BucketOf(indices.furniture, values)
               /\ row.total = IF IsSome(totalCell) THEN totalCell
                              ELSE IF sum > 0 THEN Some(sum)
                              ELSE None
      ]_vars

\* the financial rows hold a row with a derived total (a bucket of 5, a
\* bucket whose cell is no number) and a row whose buckets sum to 0 and whose
\* total is absent
C10_Witness ==
    /\ \E i \in 1..Len(financials.rows) :
          /\ financials.rows[i].room = "Bedroom"
          /\ financials.rows[i].modules = 5 * Scale
          /\ financials.rows[i].accessories = 0
          /\ financials.rows[i].total = Some(5 * Scale)
    /\ \E i \in 1..Len(financials.rows) :
          /\ financials.rows[i].room = "Hall"
          /\ financials.rows[i].total = None

(***************************************************************************)
(* The synthetic row of finalizeFinancials.                                *)
(***************************************************************************)
\* C11: with a known subtotal and no rows, finalizeFinancials returns the one
\* row 'Total' that carries the subtotal as its modules and as its total and
\* 0 in the other buckets; with rows, or without a subtotal, it returns the
\* rows as they were
C11_SyntheticRow ==
    Finalized =>
        IF RawSummary.subtotal # None /\ Len(RawSummary.rows) = 0
        THEN FinalSummary.rows =
                 << [room |-> "Total", modules |-> Val(RawSummary.subtotal),
                     accessories |-> 0, appliances |-> 0, services |-> 0,
                     furniture |-> 0, total |-> RawSummary.subtotal] >>
        ELSE FinalSummary.rows = RawSummary.rows

\* a subtotal of 100000 without rows has given the one synthetic row
C11_Witness ==
    /\ Finalized
    /\ RawSummary.rows = <<>>
    /\ RawSummary.subtotal = Some(100000 * Scale)
    /\ Len(FinalSummary.rows) = 1
    /\ FinalSummary.rows[1].room = "Total"
    /\ FinalSummary.rows[1].modules = 100000 * Scale

\* rows and a subtotal: the rows are as they were
C11_RowsKeptWitness ==
    /\ Finalized
    /\ Len(RawSummary.rows) > 0
    /\ RawSummary.subtotal # None
    /\ FinalSummary.rows = RawSummary.rows

(***************************************************************************)
(* The rows of the 'Details' sheets.                                       *)
(***************************************************************************)
\* the cell of row i of a 'Details' sheet in the column whose header has the
\* word, trimmed; empty when the header has no such column
DetailCell(sheet, i, word) ==
    trim(At(sheet.rows[i], HeaderIndex(sheet.rows[DetailHeaderAt(sheet)], word)))

\* the rows <<sheet, row>> that parseDetailItems retains: below the header of
\* a 'Details' sheet, with a serial and a description other than 'Total'
\* that a rule classifies
RetainedDetailRows ==
    {ref \in UNION {{<<n, i>> : i \in 1..Len(workbook[n].rows)} : n \in 1..Len(workbook)} :
        LET sheet == workbook[ref[1]]
        IN  /\ ~IsSkippedSheet(sheet)
            /\ ~IsSqFtSheet(sheet.name)
            /\ IsDetailsSheet(sheet.name)
            /\ DetailHeaderAt(sheet) # 0
            /\ ref[2] > DetailHeaderAt(sheet)
            /\ DetailCell(sheet, ref[2], "SL") # ""
            /\ DetailCell(sheet, ref[2], "DESCRIPTION") # ""
            /\ toLowerCase(DetailCell(sheet, ref[2], "DESCRIPTION")) # "total"
            /\ ~NoDescriptionRule(DetailCell(sheet, ref[2], "DESCRIPTION"))}

\* the retained rows of a room and a type
RetainedDetailRowsOf(retained, name, type) ==
    {ref \in retained :
        /\ RoomOfSheet(ref[1]) = name
        /\ classifyType(DetailCell(workbook[ref[1]], ref[2], "DESCRIPTION")) = Some(type)}

SizeOf(ref) == DetailCell(workbook[ref[1]], ref[2], "SIZE")

\* the widths that the size texts of the workbooks stand for, as
\* <<text, whole part, ten-thousandths>>: the first number that a w follows,
\* else the first number, else 0
KnownWidths ==
    { <<"600Wx720H", 600, 0>>, <<"600Wx2100H", 600, 0>>, <<"128", 128, 0>>,
      <<"720H x 450.5 w", 450, 5000>>, <<"n/a", 0, 0>> }

WidthIn(size) ==
    LET known == CHOOSE k \in KnownWidths : k[1] = size
    IN  known[2] * Scale + known[3]

RECURSIVE SumOfWidths(_)
SumOfWidths(refs) ==
    IF refs = {} THEN 0
    ELSE LET ref == CHOOSE r \in refs : TRUE
         IN  WidthIn(SizeOf(ref)) + SumOfWidths(refs \ {ref})

\* the running width total of a type of a room, 0 while it has none
WidthTotal(room, type) ==
    IF MapHas(room.widthTotals, type) THEN MapGet(room.widthTotals, type) ELSE 0

\* C12: once the sheets are read, the width total of every type of every
\* room is the sum of the widths of the sizes of the detail rows retained for
\* that type in the room's 'Details' sheets that have a size, the width being
\* the first number that a w or W follows, else the first number, else 0
C12_WidthTotals ==
    Succeeded =>
        LET retained == RetainedDetailRows
        IN  \A i \in 1..Len(roomMap) :
               \A type \in MapKeySet(Aggregate(i).materials)
                           \cup MapKeySet(Aggregate(i).widthTotals) :
                  WidthTotal(Aggregate(i), type) =
                      SumOfWidths({ref \in RetainedDetailRowsOf(retained, Aggregate(i).name,
                                                                type) :
                                      SizeOf(ref) # ""})

\* 'Base Cabinets' has the widths 600 and 450.5 of two rows, and the row of
\* the second sheet, which has no size column, adds nothing
C12_Witness ==
    /\ Succeeded
    /\ \E n \in 1..Len(workbook) : workbook[n] = KitchenMoreDetails
    /\ \E i \in 1..Len(roomMap) :
          /\ WidthTotal(Aggregate(i), "Base Cabinets") = 1050 * Scale + Scale \div 2
          /\ Cardinality(RetainedDetailRowsOf(RetainedDetailRows, Aggregate(i).name,
                                              "Base Cabinets")) = 3

(***************************************************************************)
(* The labelled rows of the Summary sheet's financial table.               *)
(***************************************************************************)
\* the step reads a row below the financial header
ReadsFinancialRow == pc = "summary" /\ rowIndex' = rowIndex + 1 /\ headerIndices # None

RowLabel == LabelOfRow(Val(headerIndices), SummaryRows[rowIndex])

RowHasNumber ==
    \E c \in 1..Len(SummaryRows[rowIndex]) : toNumber(SummaryRows[rowIndex][c]) # None

\* the first rule that the label matches: 1 exactly 'total', 2 'sub total',
\* 3 'discount', 4 'total' with 'payable' or 'after', 5 none of them
RuleOf(label) ==
    LET lower == toLowerCase(label)
    IN  IF lower = "total" THEN 1
        ELSE IF \E gap \in 0..Len(lower) :
                   /\ Len(lower) = 3 + gap + 5
                   /\ SubSeq(lower, 1, 3) = "sub"
                   /\ AllSpace(SubSeq(lower, 4, 3 + gap))
                   /\ SubSeq(lower, 4 + gap, Len(lower)) = "total"
             THEN 2
        ELSE IF includes(lower, "discount") THEN 3
        ELSE IF includes(lower, "total")
                /\ (includes(lower, "payable") \/ includes(lower, "after"))
             THEN 4
        ELSE 5

\* C13: a row below the financial header that has a label and a number takes
\* the action of the first rule its label matches and no other: 'total' and
\* 'sub total' touch the subtotal only, 'discount' sets the discount only
\* (also when the label has 'total' and 'after'), 'total' with 'payable' or
\* 'after' touches totalPayable only, and only a row that matches none of the
\* four adds a financial row, exactly one
C13_FirstRuleDecides ==
    [][ (ReadsFinancialRow /\ RowLabel # "" /\ RowHasNumber)
        => CASE RuleOf(RowLabel) \in {1, 2} ->
                    financials' = [financials EXCEPT !.subtotal = financials'.subtotal]
             [] RuleOf(RowLabel) = 3 ->
                    /\ financials' = [financials EXCEPT !.discount = financials'.discount]
                    /\ financials'.discount # None
             [] RuleOf(RowLabel) = 4 ->
                    financials' = [financials EXCEPT
                                      !.totalPayable = financials'.totalPayable]
             [] OTHER ->
                    /\ Len(financials'.rows) = Len(financials.rows) + 1
                    /\ financials' = [financials EXCEPT !.rows = financials'.rows]
                    /\ SubSeq(financials'.rows, 1, Len(financials.rows)) = financials.rows
                    /\ financials'.rows[Len(financials'.rows)].room = RowLabel
      ]_vars

\* the row 'Total After Discount' has been read: the discount is its number,
\* no totalPayable is set and no financial row was added
C13_Witness ==
    /\ pc = "summary"
    /\ rowIndex = 3
    /\ headerIndices # None
    /\ LabelOfRow(Val(headerIndices), SummaryRows[2]) = "Total After Discount"
    /\ financials.discount = Some(4000 * Scale)
    /\ financials.totalPayable = None
    /\ financials.rows = <<>>

\* the rows of the Summary sheet below the financial header that have been read
FinancialRowsRead ==
    IF headerIndices = None THEN {}
    ELSE LET headers == {i \in 1..Len(SummaryRows) : HeaderOfRow(SummaryRows[i]) # None}
             header == CHOOSE i \in headers : \A j \in headers : i <= j
         IN  (header + 1)..(rowIndex - 1)

LabelAt(i) == LabelOfRow(Val(headerIndices), SummaryRows[i])

\* the cells of row i in the total column and the mapped bucket columns, in
\* the order total, modules, accessories, appliances, services, furniture
ColumnCells(i) ==
    LET indices == Val(headerIndices)
        Cell(column) == IF column = None THEN "" ELSE At(SummaryRows[i], Val(column))
    IN  << At(SummaryRows[i], indices.total), Cell(indices.modules),
           Cell(indices.accessories), Cell(indices.appliances), Cell(indices.services),
           Cell(indices.furniture) >>

\* the number of the first cell that holds one
FirstNumberIn(cells) ==
    LET hits == {c \in 1..Len(cells) : NumberIn(cells[c]) # None}
    IN  IF hits = {} THEN None ELSE NumberIn(cells[CHOOSE c \in hits : \A d \in hits : c <= d])

\* C14: at every point of the scan of the Summary sheet the subtotal is the
\* number of the last 'sub total' row read that has one in its total or
\* mapped bucket columns, wherever 'total' rows stand; without such a row it
\* is the number of the first row read that is labelled exactly 'total' and
\* has a number in any cell; without that it is unset
C14_RawSubtotal ==
    (pc = "summary" /\ HasSummary) =>
        LET subs == {i \in FinancialRowsRead :
                        RuleOf(LabelAt(i)) = 2 /\ FirstNumberIn(ColumnCells(i)) # None}
            totals == {i \in FinancialRowsRead :
                          RuleOf(LabelAt(i)) = 1
                          /\ FirstNumberIn(ColumnCells(i) \o SummaryRows[i]) # None}
        IN  financials.subtotal =
                IF subs # {}
                THEN FirstNumberIn(ColumnCells(CHOOSE i \in subs : \A j \in subs : i >= j))
                ELSE IF totals # {}
                THEN LET first == CHOOSE i \in totals : \A j \in totals : i <= j
                     IN  FirstNumberIn(ColumnCells(first) \o SummaryRows[first])
                ELSE None

\* 'Sub Total 95000' and then 'Total 100000' have been read: the subtotal is
\* 95000
C14_Witness ==
    /\ pc = "summary"
    /\ \E i, j \in FinancialRowsRead :
          /\ i < j
          /\ LabelAt(i) = "Sub Total"
          /\ LabelAt(j) = "Total"
    /\ financials.subtotal = Some(95000 * Scale)

\* 'Total 100000', then 'TOTAL' with 7 in an unmapped column: the subtotal
\* is the first row's
C14_FirstTotalWitness ==
    /\ pc = "summary"
    /\ \E i, j \in FinancialRowsRead :
          /\ i < j
          /\ LabelAt(i) = "Total"
          /\ LabelAt(j) = "TOTAL"
    /\ financials.subtotal = Some(100000 * Scale)

\* the position of the label of a row: the room column's cell if it has
\* text, else the first cell with text outside the total column, else 0
LabelPosition(i) ==
    LET indices == Val(headerIndices)
        values == SummaryRows[i]
        others == {c \in 1..Len(values) : c - 1 # indices.total /\ trim(values[c]) # ""}
    IN  IF trim(At(values, indices.room)) # "" THEN indices.room + 1
        ELSE IF others # {} THEN CHOOSE c \in others : \A d \in others : c <= d
        ELSE 0

\* no cell of the row other than its label holds a number
NoNumberBesideLabel(i) ==
    \A c \in 1..Len(SummaryRows[i]) :
       c # LabelPosition(i) => NumberIn(SummaryRows[i][c]) = None

\* C15: a row below the financial header that has no label, or no number in
\* a cell other than its label, adds no financial row and leaves subtotal,
\* discount and totalPayable as they were
C15_NoiseRowsSkipped ==
    [][ (ReadsFinancialRow /\ (LabelPosition(rowIndex) = 0 \/ NoNumberBesideLabel(rowIndex)))
        => financials' = financials
      ]_vars

\* C15, for the rows it holds for: a row without a label, or without a digit
\* in any cell, is skipped
C15_RowsWithoutDigitsSkipped ==
    [][ (ReadsFinancialRow
         /\ (LabelPosition(rowIndex) = 0
             \/ \A c \in 1..Len(SummaryRows[rowIndex]) : HasNoDigit(SummaryRows[rowIndex][c])))
        => financials' = financials
      ]_vars

(***************************************************************************)
(* The HARDWARE column of the financial header.                            *)
(***************************************************************************)
\* the financial header row of the Summary sheet, once it has been read
FinancialHeader ==
    LET headers == {i \in 1..Len(SummaryRows) : HeaderOfRow(SummaryRows[i]) # None}
    IN  SummaryRows[CHOOSE i \in headers : \A j \in headers : i <= j]

\* the positions of the header cells that map the accessories column by name
AccessCells(header) ==
    {c \in 1..Len(header) :
        /\ includes(toUpperCase(header[c]), "ACCESS")
        /\ ~includes(toUpperCase(header[c]), "UNIT")}

\* the positions of the header cells that only the HARDWARE rule matches
HardwareCells(header) ==
    {c \in 1..Len(header) :
        /\ includes(toUpperCase(header[c]), "HARDWARE")
        /\ \A word \in {"UNIT", "ACCESS", "APPLIANCE", "SERVICE", "FURNITURE", "DECOR"} :
              ~includes(toUpperCase(header[c]), word)}

\* C16: a HARDWARE cell of the financial header is the accessories column
\* only if no earlier cell of the row has mapped one: after an ACCESS cell, at
\* whatever index, a later HARDWARE cell does not replace it
C16_HardwareNeverReplacesAccess ==
    headerIndices # None =>
        \A h \in HardwareCells(FinancialHeader) :
           (\E a \in AccessCells(FinancialHeader) : a < h)
           => Val(headerIndices).accessories # Some(h - 1)

\* C16, for the headers it holds for: an ACCESS cell that is not the first
\* cell of the row is not replaced by a later HARDWARE cell, and without an
\* ACCESS cell a HARDWARE cell is the accessories column
C16_HardwareAfterLaterAccess ==
    headerIndices # None =>
        /\ \A h \in HardwareCells(FinancialHeader) :
              (\E a \in AccessCells(FinancialHeader) : 1 < a /\ a < h)
              => Val(headerIndices).accessories # Some(h - 1)
        /\ (AccessCells(FinancialHeader) = {} /\ HardwareCells(FinancialHeader) # {})
           => \E h \in HardwareCells(FinancialHeader) :
                 Val(headerIndices).accessories = Some(h - 1)

(***************************************************************************)
(* The rooms and materials blocks of the Summary sheet.                    *)
(***************************************************************************)
\* the positions of the cells of a row that name a room: text around ' - '
RoomCells(values) == {c \in 1..Len(values) : includes(trim(values[c]), " - ")}

\* the positions of the cells of a row that are materials blocks
MaterialCells(values) ==
    {c \in 1..Len(values) : includes(values[c], "Carcass:") \/ includes(values[c], "Handles:")}

First(S) == CHOOSE c \in S : \A d \in S : c <= d

\* the room named by the most recent room-name cell at or before row i of
\* the Summary sheet, None before any
RECURSIVE RoomAt(_)
RoomAt(i) ==
    IF i = 0 THEN None
    ELSE IF RoomCells(SummaryRows[i]) # {}
         THEN Some(trim(SummaryRows[i][First(RoomCells(SummaryRows[i]))]))
    ELSE RoomAt(i - 1)

\* C17: a materials block of a row of the Summary sheet (the row's first
\* cell with 'Carcass:' or 'Handles:') goes to the room named by the most
\* recent room-name cell at or before that row and to no other room: every
\* type its sections name is a type of that room afterwards, the materials
\* of every other room are as they were, and a block in a row before any
\* room-name row is stored nowhere
C17_BlockGoesToCurrentRoom ==
    [][ (pc = "summary" /\ rowIndex' = rowIndex + 1)
        => LET values == SummaryRows[rowIndex]
               room == RoomAt(rowIndex)
           IN  /\ currentRoom' = room
               /\ room = None => materialsByRoom' = materialsByRoom
               /\ room # None =>
                     /\ MapKeySet(materialsByRoom') = MapKeySet(materialsByRoom)
                                                        \cup {Val(room)}
                     /\ \A other \in MapKeySet(materialsByRoom) \ {Val(room)} :
                           MapGet(materialsByRoom', other) = MapGet(materialsByRoom, other)
                     /\ MaterialCells(values) # {} =>
                           \A title \in BlockTitles(values[First(MaterialCells(values))]) :
                              MapHas(MapGet(materialsByRoom', Val(room)),
                                     normalizeTypeName(title))
                     /\ MaterialCells(values) = {} =>
                           \A known \in MapKeySet(materialsByRoom) :
                              MapGet(materialsByRoom', known) = MapGet(materialsByRoom, known)
      ]_vars

\* 'Flat - Kitchen', then 'Flat - Bedroom', then a block in a row of its
\* own: the block is the Bedroom's and the Kitchen has none
C17_Witness ==
    /\ pc = "summary"
    /\ rowIndex = 4
    /\ RoomAt(1) = Some("Flat - Kitchen")
    /\ RoomAt(2) = Some("Flat - Bedroom")
    /\ RoomCells(SummaryRows[3]) = {}
    /\ MaterialCells(SummaryRows[3]) # {}
    /\ MapGet(materialsByRoom, "Flat - Kitchen") = EmptyMap
    /\ MapHas(MapGet(materialsByRoom, "Flat - Bedroom"), "Base Cabinets")

\* a block in the first row and a room in the second: no room has the block
C17_NoRoomWitness ==
    /\ pc = "summary"
    /\ rowIndex = 3
    /\ RoomAt(1) = None
    /\ MaterialCells(SummaryRows[1]) # {}
    /\ RoomAt(2) # None
    /\ MapGet(materialsByRoom, Val(RoomAt(2))) = EmptyMap

\* the sections of a materials block, in order, as <<title, fields>>
BlockSections(cell) ==
    LET sections == SeqFilter(SeqMap(SplitSections(cell), trim), NonEmptyText)
    IN  [k \in 1..Len(sections) |->
            [title |-> TitleLine(SectionLines(sections[k])),
             fields |-> SectionFields(SectionLines(sections[k]), 2, EmptyMap)]]

\* the block that row i of the Summary sheet offers, <<>> if it has none
OfferedSections(i) ==
    IF MaterialCells(SummaryRows[i]) = {} THEN <<>>
    ELSE BlockSections(SummaryRows[i][First(MaterialCells(SummaryRows[i]))])

\* the positions of the sections whose title canonicalizes to the type
SectionsOfType(sections, type) ==
    {k \in 1..Len(sections) :
        sections[k].title # "" /\ normalizeTypeName(sections[k].title) = type}

\* the rows read so far that offer the room a section of the type
OfferingRows(room, type) ==
    {i \in 1..(rowIndex - 1) :
        RoomAt(i) = Some(room) /\ SectionsOfType(OfferedSections(i), type) # {}}

Last(S) == CHOOSE c \in S : \A d \in S : c >= d

\* C18: in the Summary sheet's materials of every room, the block of every
\* type is that of the first section, in row order and then in section order
\* within the cell, whose heading canonicalizes to the type: no later section
\* has replaced its label or fields
C18_FirstSectionWins ==
    (pc = "summary" /\ HasSummary) =>
        \A r \in 1..Len(materialsByRoom) :
           \A t \in 1..Len(materialsByRoom[r].v) :
              LET room == materialsByRoom[r].k
                  type == materialsByRoom[r].v[t].k
                  sections == OfferedSections(First(OfferingRows(room, type)))
                  first == sections[First(SectionsOfType(sections, type))]
              IN  /\ materialsByRoom[r].v[t].v.label = first.title
                  /\ materialsByRoom[r].v[t].v.fields = first.fields

\* C18, as the code has it: the first row that offers the room a section of
\* the type decides, and within that row's cell the last such section does
C18_FirstRowLastSectionWins ==
    (pc = "summary" /\ HasSummary) =>
        \A r \in 1..Len(materialsByRoom) :
           \A t \in 1..Len(materialsByRoom[r].v) :
              LET room == materialsByRoom[r].k
                  type == materialsByRoom[r].v[t].k
                  sections == OfferedSections(First(OfferingRows(room, type)))
                  last == sections[Last(SectionsOfType(sections, type))]
              IN  /\ materialsByRoom[r].v[t].v.label = last.title
                  /\ materialsByRoom[r].v[t].v.fields = last.fields

(***************************************************************************)
(* The end of the table of a 'Sq.Ft' sheet.                                *)
(***************************************************************************)
\* the rows below the 'CABINET TYPE' header of sheet n whose type cell starts
\* with 'wood work' or 'total', whatever the case
TerminatorRows(n) ==
    {i \in (StatsHeaderAt(n) + 1)..Len(workbook[n].rows) :
        \E word \in {"wood work", "total"} :
           StartsWith(toLowerCase(StatsTypeCell(n, i)), word)}

\* sheet n without its rows from the first terminator row on
UpToTerminator(n) ==
    IF TerminatorRows(n) = {} THEN workbook[n]
    ELSE Sheet(workbook[n].name,
               SubSeq(workbook[n].rows, 1, First(TerminatorRows(n)) - 1))

\* C19: reading a 'Sq.Ft' sheet changes the rooms as reading it without its
\* rows from the first 'wood work' or 'total' row on would: no row at or
\* after that row gives stats or a materials placeholder; and every row
\* before it with a type, also one below a row without a type, gives the
\* room stats under its canonical type
C19_ReadingStopsAtTerminator ==
    [][ (pc = "aggregate" /\ sheetIndex' = sheetIndex + 1
         /\ ~IsSkippedSheet(workbook[sheetIndex])
         /\ IsSqFtSheet(workbook[sheetIndex].name)
         /\ StatsHeaderAt(sheetIndex) # 0)
        => /\ roomMap' = RoomsAfterSheet(roomMap, UpToTerminator(sheetIndex), materialsByRoom)
           /\ \A i \in (StatsHeaderAt(sheetIndex) + 1)..Len(workbook[sheetIndex].rows) :
                 (/\ StatsTypeCell(sheetIndex, i) # ""
                  /\ \A stop \in TerminatorRows(sheetIndex) : i < stop)
                 => MapHas(MapGet(roomMap', RoomOfSheet(sheetIndex)).stats,
                           normalizeTypeName(StatsTypeCell(sheetIndex, i)))
      ]_vars

\* a sheet with a 'Total' row above a 'Custom Bay Unit' row has been read:
\* the room has no such type
C19_Witness ==
    /\ pc = "aggregate"
    /\ sheetIndex = 3
    /\ IsSqFtSheet(workbook[2].name)
    /\ \E stop \in TerminatorRows(2) :
          \E i \in (stop + 1)..Len(workbook[2].rows) :
             StatsTypeCell(2, i) = "Custom Bay Unit"
    /\ ~MapHas(MapGet(roomMap, RoomOfSheet(2)).stats, "Custom Bay Unit")
    /\ ~MapHas(MapGet(roomMap, RoomOfSheet(2)).materials, "Custom Bay Unit")

\* a sheet with a row without a type above a 'Custom Bay Unit' row has been
\* read: the room has the type
C19_EmptyRowWitness ==
    /\ pc = "aggregate"
    /\ sheetIndex = 3
    /\ IsSqFtSheet(workbook[2].name)
    /\ \E i \in (StatsHeaderAt(2) + 2)..Len(workbook[2].rows) :
          /\ StatsTypeCell(2, i - 1) = ""
          /\ StatsTypeCell(2, i) = "Custom Bay Unit"
    /\ MapHas(MapGet(roomMap, RoomOfSheet(2)).stats, "Custom Bay Unit")

\* the rows of a set in workbook order: sheet by sheet, top to bottom
RECURSIVE InWorkbookOrder(_)
InWorkbookOrder(refs) ==
    IF refs = {} THEN <<>>
    ELSE LET first == CHOOSE a \in refs : \A b \in refs \ {a} : Before(a, b)
         IN  <<first>> \o InWorkbookOrder(refs \ {first})

\* the item of a detail row: its trimmed code, description and size, and the
\* number of its price cell, if the sheet has the column and the cell a number
ItemOf(ref) ==
    [code |-> DetailCell(workbook[ref[1]], ref[2], "CODE"),
     description |-> DetailCell(workbook[ref[1]], ref[2], "DESCRIPTION"),
     size |-> DetailCell(workbook[ref[1]], ref[2], "SIZE"),
     price |-> NumberIn(DetailCell(workbook[ref[1]], ref[2], "PRICE"))]

\* C20: the items of every type of every room of the response are the items
\* of the detail rows retained for the type (a serial, a description other
\* than 'Total' that classifies to the type) in the room's 'Details' sheets,
\* sheet by sheet in workbook order and top to bottom: none is lost,
\* duplicated or out of order, and every retained row's type is in the
\* response
C20_ItemsInArrivalOrder ==
    Succeeded =>
        LET retained == RetainedDetailRows
        IN  /\ \A i \in 1..Len(response.rooms) :
                  \A j \in 1..Len(response.rooms[i].types) :
                     LET rows == InWorkbookOrder(
                                     RetainedDetailRowsOf(retained, response.rooms[i].name,
                                                          response.rooms[i].types[j].type))
                     IN  response.rooms[i].types[j].items =
                             [k \in 1..Len(rows) |-> ItemOf(rows[k])]
            /\ \A ref \in retained :
                  \E i \in 1..Len(response.rooms) :
                     /\ response.rooms[i].name = RoomOfSheet(ref[1])
                     /\ \E j \in 1..Len(response.rooms[i].types) :
                           Some(response.rooms[i].types[j].type) =
                               classifyType(DetailCell(workbook[ref[1]], ref[2],
                                                       "DESCRIPTION"))

\* 'Base Cabinets' lists 'Base Unit 600' and 'Base Corner' of the first
\* 'Details' sheet and then 'Base Unit 900' of the second
C20_Witness ==
    /\ Succeeded
    /\ \E i \in 1..Len(response.rooms) :
          \E j \in 1..Len(response.rooms[i].types) :
             LET items == response.rooms[i].types[j].items
             IN  /\ response.rooms[i].types[j].type = "Base Cabinets"
                 /\ Len(items) = 3
                 /\ items[1].description = "Base Unit 600"
                 /\ items[2].description = "Base Corner"
                 /\ items[3].description = "Base Unit 900"
                 /\ items[3].price = Some(7000 * Scale)

(***************************************************************************)
(* One aggregate per room.                                                 *)
(***************************************************************************)
\* aggregateRooms reads sheet n
IsReadSheet(n) ==
    /\ workbook[n].name \notin {"Summary", "Terms & Conditions"}
    /\ workbook[n].rows # <<>>

\* the room identity of sheet n: its first cell that has ' - ' inside,
\* trimmed, else the sheet's name
RoomIdentity(n) ==
    LET cells == Flatten(workbook[n].rows)
        titled == {c \in 1..Len(cells) : includes(trim(cells[c]), " - ")}
    IN  IF titled = {} THEN workbook[n].name ELSE trim(cells[First(titled)])

\* the identities of the read sheets from sheet n on, each once, in the order
\* of their first sheets
RECURSIVE IdentitiesFrom(_, _)
IdentitiesFrom(n, seen) ==
    IF n > Len(workbook) THEN <<>>
    ELSE IF ~IsReadSheet(n) \/ RoomIdentity(n) \in seen THEN IdentitiesFrom(n + 1, seen)
    ELSE <<RoomIdentity(n)>> \o IdentitiesFrom(n + 1, seen \cup {RoomIdentity(n)})

IsPrefix(s, t) == Len(s) <= Len(t) /\ SubSeq(t, 1, Len(s)) = s

\* every entry of the map old is in the map new, unchanged
KeepsEntries(old, new) ==
    \A k \in MapKeySet(old) : MapHas(new, k) /\ MapGet(new, k) = MapGet(old, k)

\* the aggregate new continues the aggregate old: nothing of old is cleared
Continues(old, new, sheetName) ==
    /\ new.name = old.name
    /\ KeepsEntries(old.materials, new.materials)
    /\ MapKeySet(old.stats) \subseteq MapKeySet(new.stats)
    /\ \A k \in MapKeySet(old.items) :
          MapHas(new.items, k) /\ IsPrefix(MapGet(old.items, k), MapGet(new.items, k))
    /\ \A k \in MapKeySet(old.widthTotals) :
          MapHas(new.widthTotals, k)
          /\ MapGet(new.widthTotals, k) >= MapGet(old.widthTotals, k)
    /\ IsSqFtSheet(sheetName) =>
          new.items = old.items /\ new.widthTotals = old.widthTotals
    /\ ~IsSqFtSheet(sheetName) => new.stats = old.stats

\* C21: aggregateRooms keeps one aggregate per room identity of the read
\* sheets (those with rows, other than 'Summary' and 'Terms & Conditions'):
\* a sheet of a new room appends an aggregate that holds the Summary's
\* materials of the room, a sheet of a room already seen continues that
\* room's aggregate in place without clearing its materials, stats, items or
\* widths, no sheet touches another room's aggregate, and the rooms of the
\* response are the identities, each once, in the order of their first sheets
C21_OneAggregatePerRoom ==
    [][ /\ (pc = "aggregate" /\ sheetIndex' = sheetIndex + 1) =>
              LET id == RoomIdentity(sheetIndex)
              IN  IF ~IsReadSheet(sheetIndex) THEN roomMap' = roomMap
                  ELSE /\ \A k \in MapKeySet(roomMap) \ {id} :
                             MapGet(roomMap', k) = MapGet(roomMap, k)
                       /\ IF MapHas(roomMap, id)
                          THEN /\ MapKeys(roomMap') = MapKeys(roomMap)
                               /\ Continues(MapGet(roomMap, id), MapGet(roomMap', id),
                                            workbook[sheetIndex].name)
                          ELSE /\ MapKeys(roomMap') = Append(MapKeys(roomMap), id)
                               /\ MapGet(roomMap', id).name = id
                               /\ MapHas(materialsByRoom, id) =>
                                     KeepsEntries(MapGet(materialsByRoom, id),
                                                  MapGet(roomMap', id).materials)
        /\ (pc = "aggregate" /\ pc' = "done") =>
              /\ MapKeys(roomMap) = IdentitiesFrom(1, {})
              /\ [i \in 1..Len(response'.rooms) |-> response'.rooms[i].name]
                     = IdentitiesFrom(1, {})
      ]_vars

\* the kitchen's 'Sq.Ft' sheet, the bedroom's sheet and then the kitchen's
\* 'Details' sheet: two rooms, the kitchen first, with its Summary materials,
\* its stats and its items
C21_Witness ==
    /\ Succeeded
    /\ Len(workbook) = 4
    /\ workbook[1].name = "Summary"
    /\ RoomIdentity(2) = RoomTitle
    /\ RoomIdentity(3) = "Bedroom Sq.ft"
    /\ RoomIdentity(4) = RoomTitle
    /\ IsDetailsSheet(workbook[4].name)
    /\ Len(response.rooms) = 2
    /\ response.rooms[1].name = RoomTitle
    /\ response.rooms[2].name = "Bedroom Sq.ft"
    /\ MapHas(materialsByRoom, RoomTitle)
    /\ Aggregate(1).stats # EmptyMap
    /\ Aggregate(1).items # EmptyMap
    /\ Aggregate(1).widthTotals # EmptyMap

(***************************************************************************)
(* Inline materials of a room's own sheets.                                *)
(***************************************************************************)
\* the fields that the inline materials texts of sheet n give for a type
InlineFields(n, key) ==
    LET cells == Flatten(workbook[n].rows)
    IN  {MapGet(parseMaterialsBlock(cells[c]), key).fields :
            c \in {d \in 1..Len(cells) :
                      /\ includes(cells[d], "Carcass:")
                      /\ MapHas(parseMaterialsBlock(cells[d]), key)}}

SummaryLacks(name, key) ==
    ~MapHas(materialsByRoom, name) \/ ~MapHas(MapGet(materialsByRoom, name), key)

\* C22: in a successful response, a (room, type) that the Summary sheet has
\* no materials for and that a sheet of the room other than a 'Sq.Ft' or
\* 'Details' sheet gives inline materials for carries inline fields, wherever
\* the room's sheets stand and whatever other materials the room has
C22_InlineMaterialsSupplement ==
    Succeeded =>
        \A i \in 1..Len(response.rooms) :
            \A n \in RoomSheets(response.rooms[i].name) :
                IsInlineSheet(n) =>
                    \A key \in InlineKeys(n) :
                        SummaryLacks(response.rooms[i].name, key) =>
                            /\ key \in ResponseTypeKeys(i)
                            /\ \E m \in RoomSheets(response.rooms[i].name) :
                                  /\ IsInlineSheet(m)
                                  /\ ResponseType(i, key).materials \in InlineFields(m, key)

\* What the code does: a sheet that is neither a 'Sq.Ft' nor a 'Details'
\* sheet changes its room only when the room has no materials entry at all,
\* and then every type of its inline texts gets inline fields
C22_InlineOnlyIntoEmptyRoom ==
    [][ (/\ pc = "aggregate"
         /\ sheetIndex' = sheetIndex + 1
         /\ IsReadSheet(sheetIndex)
         /\ IsInlineSheet(sheetIndex))
        => LET before == RoomBefore(sheetIndex)
               after == MapGet(roomMap', RoomIdentity(sheetIndex))
           IN  IF before.materials # EmptyMap THEN after = before
               ELSE /\ after = [before EXCEPT !.materials = after.materials]
                    /\ MapKeySet(after.materials) = InlineKeys(sheetIndex)
                    /\ \A key \in InlineKeys(sheetIndex) :
                          MapGet(after.materials, key).fields
                              \in InlineFields(sheetIndex, key)
      ]_vars

\* the room's 'Sq.Ft' sheet came first and left a placeholder, so the inline
\* materials of the later sheet were not read
C22_PlaceholderWitness ==
    /\ Succeeded
    /\ \E i \in 1..Len(response.rooms) :
          \E n \in RoomSheets(response.rooms[i].name) :
             /\ IsInlineSheet(n)
             /\ \E key \in InlineKeys(n) :
                   /\ SummaryLacks(response.rooms[i].name, key)
                   /\ key \in ResponseTypeKeys(i)
                   /\ ResponseType(i, key).materials = EmptyMap

(***************************************************************************)
(* Several stats rows of one type.                                         *)
(***************************************************************************)
\* among the deciding rows, those whose cell of field f holds a number
NumericRows(retained, i, key, f) ==
    {ref \in DecidingRows(retained, i, key, f) : NumberIn(StatsCell(ref, f)) # None}

\* C27: for every (room, type) of the response and each of area / cost /
\* total, the response field is the number of the last retained stats row of
\* the type that has a numeric cell in that column, and null only when no
\* retained row of the type has one: a later row with an empty cell erases
\* nothing
C27_RecordedValuesKept ==
    Succeeded =>
        LET retained == RetainedStatsRows
        IN  \A i \in 1..Len(response.rooms) : \A key \in ResponseTypeKeys(i) :
                \A f \in StatsFields :
                    LET refs == NumericRows(retained, i, key, f)
                    IN  ResponseType(i, key).stats[ResponseName(f)] =
                            IF refs = {} THEN None
                            ELSE NumberIn(StatsCell(LastRow(refs), f))

\* a type whose earlier row holds a cost and whose last row has an empty
\* cost cell: the response's cost is null
C27_ErasedWitness ==
    /\ Succeeded
    /\ LET retained == RetainedStatsRows
       IN  \E i \in 1..Len(response.rooms) : \E key \in ResponseTypeKeys(i) :
              LET refs == DecidingRows(retained, i, key, "costPerSqFt")
              IN  /\ NumericRows(retained, i, key, "costPerSqFt") # {}
                  /\ StatsCell(LastRow(refs), "costPerSqFt") = ""
                  /\ ResponseType(i, key).stats.costPerSqFt = None

(***************************************************************************)
(* dimensionAggregate.                                                     *)
(***************************************************************************)
\* the retained detail rows of the i-th room of the response and a type
\* that have a size text
SizedRows(retained, i, type) ==
    {ref \in RetainedDetailRowsOf(retained, response.rooms[i].name, type) :
        SizeOf(ref) # ""}

\* C28: for every type of the response, dimensionAggregate is null exactly
\* when no retained item of the (room, type) has a size text, and otherwise
\* it is the sum of the widths of the size texts, also when that sum is 0
C28_NullOnlyWithoutSizes ==
    Succeeded =>
        LET retained == RetainedDetailRows
        IN  \A i \in 1..Len(response.rooms) : \A key \in ResponseTypeKeys(i) :
                ResponseType(i, key).dimensionAggregate =
                    IF SizedRows(retained, i, key) = {} THEN None
                    ELSE Some(SumOfWidths(SizedRows(retained, i, key)))

\* What the code does: dimensionAggregate is the sum of the widths when that
\* sum is not 0, and null when it is 0 or no item has a size text
C28_NullForZeroSum ==
    Succeeded =>
        LET retained == RetainedDetailRows
        IN  \A i \in 1..Len(response.rooms) : \A key \in ResponseTypeKeys(i) :
                LET sum == SumOfWidths(SizedRows(retained, i, key))
                IN  ResponseType(i, key).dimensionAggregate =
                        IF sum = 0 THEN None ELSE Some(sum)

\* a type whose only sized item has the size 'n/a', of width 0: its
\* dimensionAggregate is null
C28_ZeroSumWitness ==
    /\ Succeeded
    /\ LET retained == RetainedDetailRows
       IN  \E i \in 1..Len(response.rooms) : \E key \in ResponseTypeKeys(i) :
              /\ SizedRows(retained, i, key) # {}
              /\ \A ref \in SizedRows(retained, i, key) : SizeOf(ref) = "n/a"
              /\ ResponseType(i, key).dimensionAggregate = None

(***************************************************************************)
(* The order of the rules of normalizeTypeName.                            *)
(***************************************************************************)
DescriptionHas(word) == includes(toLowerCase(description), word)

\* C25: normalizeTypeName maps every text with 'sliding wardrobe' to 'Sliding
\* Wardrobes', every other text with 'wardrobe' to 'Hinged Wardrobes' and
\* every text with 'mid tall' (and no 'wardrobe') to 'Tall Cabinets',
\* whatever other words of the rules the text has
C25_MostSpecificFirst ==
    normalized # None =>
        /\ DescriptionHas("sliding wardrobe") => Val(normalized) = "Sliding Wardrobes"
        /\ (DescriptionHas("wardrobe") /\ ~DescriptionHas("sliding wardrobe"))
               => Val(normalized) = "Hinged Wardrobes"
        /\ (DescriptionHas("mid tall") /\ ~DescriptionHas("wardrobe"))
               => Val(normalized) = "Tall Cabinets"

\* What the code does: the wardrobe rules decide only a text that has none
\* of the words of the rules standing before them, and 'mid tall' decides
\* nothing, since 'tall' stands before it: a text with 'mid tall' is 'Tall
\* Cabinets' unless it has 'base' or 'wall'
C25_GeneralRulesFirst ==
    normalized # None =>
        /\ (\E word \in {"base", "wall", "tall", "suspended", "open shelf", "panel",
                         "skirt", "loft", "pooja", "filler"} : DescriptionHas(word))
               => Val(normalized) \notin {"Sliding Wardrobes", "Hinged Wardrobes"}
        /\ DescriptionHas("mid tall") =>
               Val(normalized) = IF DescriptionHas("base") THEN "Base Cabinets"
                                 ELSE IF DescriptionHas("wall") THEN "Wall Cabinets"
                                 ELSE "Tall Cabinets"

\* a sliding wardrobe with a loft is filed under 'Lofts'
C25_LoftWitness ==
    /\ description = "Sliding Wardrobe Loft"
    /\ normalized = Some("Lofts")

(***************************************************************************)
(* Headings against line items.                                            *)
(***************************************************************************)
CanonicalTypes ==
    {"Base Cabinets", "Wall Cabinets", "Tall Cabinets", "Suspended Cabinets",
     "Open Shelf & Panels", "Skirting", "Lofts", "Pooja Units", "Fillers",
     "Hinged Wardrobes", "Sliding Wardrobes"}

\* C26: classifyType returns a type for a text exactly when normalizeTypeName
\* maps the text to a canonical type name, and then both return the same name
C26_SameMapping ==
    (normalized # None /\ classified # None) =>
        /\ IsSome(Val(classified)) <=> Val(normalized) \in CanonicalTypes
        /\ IsSome(Val(classified)) => Val(Val(classified)) = Val(normalized)

\* What the code does: the two agree on every text but those that have
\* 'shelf' and no word of the heading rules, which are kept verbatim as
\* headings and filed under 'Open Shelf & Panels' as line items
C26_SameButForShelf ==
    (normalized # None /\ classified # None) =>
        IF Val(normalized) \in CanonicalTypes THEN Val(classified) = normalized
        ELSE /\ Val(normalized) = trim(description)
             /\ Val(classified) = IF DescriptionHas("shelf") THEN Some("Open Shelf & Panels")
                                  ELSE None

\* 'Shelf Unit' is kept verbatim as a heading and classified as a line item
C26_ShelfWitness ==
    /\ description = "Shelf Unit"
    /\ normalized = Some("Shelf Unit")
    /\ classified = Some(Some("Open Shelf & Panels"))

(***************************************************************************)
(* The metadata fields.                                                    *)
(***************************************************************************)
MetaFields == DOMAIN EmptyMeta

RECURSIVE RowsOfSheets(_)
RowsOfSheets(n) == IF n = 0 THEN <<>> ELSE RowsOfSheets(n - 1) \o workbook[n].rows

\* the rows that extractMetadata has read so far, in the order it read them
ScannedRows ==
    IF metaSheet > Len(workbook) THEN RowsOfSheets(Len(workbook))
    ELSE RowsOfSheets(metaSheet - 1) \o SubSeq(workbook[metaSheet].rows, 1, metaRow - 1)

ScanDone == metaSheet > Len(workbook)

\* the candidates that a row yields: what the row sets the fields to when
\* nothing is set yet
RowYields(values) == MetaAfterRow(EmptyMeta, values)

\* the candidate for the field of the first of the records that has one
FirstYield(yields, f) ==
    LET yielding == {i \in 1..Len(yields) : yields[i][f] # None}
    IN  IF yielding = {} THEN None ELSE yields[First(yielding)][f]

\* C23: at every point of extractMetadata's scan, every field holds the
\* candidate of the first row read so far (sheet by sheet, top to bottom)
\* that yields one for it, and nothing while no row has: a field that is set
\* is never changed by a later row or sheet, and the final value is the first
\* row's
C23_FirstCandidateStays ==
    LET rows == ScannedRows
        yields == [i \in 1..Len(rows) |-> RowYields(rows[i])]
    IN  \A f \in MetaFields : meta[f] = FirstYield(yields, f)

\* the scan is over, the customer is the one of the 'Cover' sheet's row, and
\* a row of the 'Summary' sheet names another customer
C23_Witness ==
    /\ ScanDone
    /\ Len(workbook) = 2
    /\ meta.customer = Some("Asha")
    /\ \E i \in 1..Len(workbook[1].rows) :
          RowYields(workbook[1].rows[i]).customer = Some("Asha")
    /\ \E i \in 1..Len(workbook[2].rows) :
          RowYields(workbook[2].rows[i]).customer = Some("Ravi")

(***************************************************************************)
(* The property name and the reference.                                    *)
(***************************************************************************)
\* the value that follows a 'Property Name' label in a row, None without one
PropertyNameOf(values) == findValue(values, [words |-> <<"property", "name">>, whole |-> FALSE])

\* the value that follows a 'Reference' label in a row, None without one
ReferenceOf(values) == findValue(values, [words |-> <<"reference">>, whole |-> TRUE])

FirstOf(rows, ValueOf(_)) ==
    LET having == {i \in 1..Len(rows) : ValueOf(rows[i]) # None}
    IN  IF having = {} THEN 0 ELSE First(having)

\* C24: once the workbook is scanned, the property name is the first value
\* that follows a 'Property Name' label anywhere in the workbook, also when a
\* 'Reference' row is read earlier or the two labels share a row, and it is
\* the reference only when no 'Property Name' value exists
C24_PropertyNameBeforeReference ==
    ScanDone =>
        LET rows == ScannedRows
            named == FirstOf(rows, PropertyNameOf)
        IN  meta.propertyName = IF named # 0 THEN PropertyNameOf(rows[named])
                                ELSE meta.reference

\* What the code does: the first row with a 'Reference' value or a 'Property
\* Name' value decides, and the reference wins when that row has both
C24_EarlierLabelDecides ==
    ScanDone =>
        LET rows == ScannedRows
            named == FirstOf(rows, PropertyNameOf)
            referred == FirstOf(rows, ReferenceOf)
        IN  meta.propertyName =
                IF referred # 0 /\ (named = 0 \/ referred <= named)
                THEN ReferenceOf(rows[referred])
                ELSE IF named # 0 THEN PropertyNameOf(rows[named])
                ELSE None

\* a 'Reference' row was read before the 'Property Name' row: the property
\* name is the reference
C24_ReferenceFirstWitness ==
    /\ ScanDone
    /\ meta.reference = Some("REF-1")
    /\ meta.propertyName = Some("REF-1")
    /\ \E i \in 1..Len(ScannedRows) : PropertyNameOf(ScannedRows[i]) = Some("Green Villa")

(***************************************************************************)
(* The chunk-upload route: when an upload is complete.                     *)
(***************************************************************************)
\* the chunks that the POSTs handled so far carried for an index of an upload
PostedChunks(uploadId, index) ==
    {posts[p].chunk : p \in {q \in 1..Len(posts) : /\ posts[q].uploadId = uploadId
                                                   /\ posts[q].chunkIndex = index}}

\* the files made of one posted chunk for each index 0 .. n - 1, in index order
FilesOf(uploadId, n) ==
    LET Files[i \in 0..n] ==
            IF i = 0 THEN {""}
            ELSE {file \o chunk : file \in Files[i - 1],
                                  chunk \in PostedChunks(uploadId, i - 1)}
    IN  Files[n]

\* GET would return a file for the upload
RetrievableIn(storage, uploadId) ==
    /\ MapHas(storage, uploadId)
    /\ MapHas(MapGet(storage, uploadId).chunks, -1)

FileIn(storage, uploadId) == MapGet(MapGet(storage, uploadId).chunks, -1)

Retrievable(uploadId) == RetrievableIn(chunkStorage, uploadId)

RetrievableFile(uploadId) == FileIn(chunkStorage, uploadId)

\* the file that the chunks of a log of POSTs make in index order
FileOfLog(log) ==
    LET chunkAt(i) == log[CHOOSE p \in 1..Len(log) : log[p].chunkIndex = i].chunk
        Joined[i \in 0..Len(log)] == IF i = 0 THEN "" ELSE Joined[i - 1] \o chunkAt(i - 1)
    IN  Joined[Len(log)]

\* C29: whatever chunk POSTs an upload has received, a file is retrievable
\* by GET, and a POST has just reported complete:true, only when for some
\* number n of chunks every index 0 .. n - 1 has been received, and the
\* retrievable file is then made of those chunks in index order
C29_CompleteOnlyWhenAllReceived ==
    \A uploadId \in UploadIds :
        /\ Retrievable(uploadId) =>
              \E n \in 1..MaxChunks : RetrievableFile(uploadId) \in FilesOf(uploadId, n)
        /\ (reply.request = "POST" /\ reply.complete = Some(TRUE)) =>
              \A i \in 0..(posts[Len(posts)].totalChunks - 1) :
                  PostedChunks(posts[Len(posts)].uploadId, i) # {}

\* What the code does for chunk indexes from 0 on: the statement of C29
\* holds as long as no POST carried the index -1
C29_HoldsFromIndexZero ==
    (\A p \in 1..Len(posts) : posts[p].chunkIndex >= 0) => C29_CompleteOnlyWhenAllReceived

\* one chunk was POSTed with the index -1 for an upload of two chunks: it
\* is retrievable as the complete file, and no POST reported complete:true
C29_MinusOneWitness ==
    /\ Len(posts) = 1
    /\ posts[1].chunkIndex = -1
    /\ posts[1].totalChunks = 2
    /\ reply.request = "GET"
    /\ reply.file = Some(posts[1].chunk)

(***************************************************************************)
(* The chunk-upload route: uploads and the cleanup.                        *)
(***************************************************************************)
\* the POSTs handled so far are those of one upload of n chunks, each index
\* 0 .. n - 1 once, all of them announcing n chunks
EachChunkOnce(log) ==
    /\ Len(log) >= 1
    /\ \A p \in 1..Len(log) :
          /\ log[p].uploadId = log[1].uploadId
          /\ log[p].totalChunks = Len(log)
    /\ {log[p].chunkIndex : p \in 1..Len(log)} = 0..(Len(log) - 1)

\* C30: however the cleanup runs between the POSTs, when every index
\* 0 .. totalChunks - 1 of an upload has been POSTed once, the POST of the
\* last missing chunk reports complete:true and the file made of the chunks
\* in index order is retrievable
C30_LastChunkCompletes ==
    [][ (posts' # posts /\ EachChunkOnce(posts')) =>
            /\ reply'.complete = Some(TRUE)
            /\ RetrievableIn(chunkStorage', posts'[1].uploadId)
            /\ FileIn(chunkStorage', posts'[1].uploadId) = FileOfLog(posts')
      ]_uploadVars

\* What the code does: the last chunk completes the upload when it arrives
\* before the third run of the cleanup after the first chunk
C30_CompletesWhileYoung ==
    [][ (posts' # posts /\ EachChunkOnce(posts') /\ now - posts'[1].at <= 2) =>
            /\ reply'.complete = Some(TRUE)
            /\ RetrievableIn(chunkStorage', posts'[1].uploadId)
            /\ FileIn(chunkStorage', posts'[1].uploadId) = FileOfLog(posts')
      ]_uploadVars

\* the two chunks of an upload were POSTed once each, the second after the
\* cleanup had deleted the upload: the POST reported complete:false and no
\* file is retrievable
C30_DeletedWitness ==
    /\ EachChunkOnce(posts)
    /\ Len(posts) = 2
    /\ posts[2].at - posts[1].at = 3
    /\ now = posts[2].at
    /\ reply.request = "POST"
    /\ reply.complete = Some(FALSE)
    /\ ~Retrievable(posts[1].uploadId)

====
